---- MODULE Spec2Model ----
(***************************************************************************)
(* Context management engine of ollama-prompt: the session store           *)
(* (session_db.py) and the three-level compaction engine                   *)
(* (context_manager.py), as a state machine.                               *)
(*                                                                         *)
(* Conventions.                                                            *)
(*  - The messages table is kept as a sequence in ORDER BY timestamp       *)
(*    order.  A message's timestamp is the reading of a strictly           *)
(*    increasing clock at insertion (datetime.now().isoformat() has        *)
(*    microsecond resolution), so insertion order is timestamp order.      *)
(*  - The wall clock used by the cooldown (`now`, seconds) is coarse and   *)
(*    advances only by the Tick action.                                    *)
(*  - A content string is the record of what the code reads from it: its   *)
(*    length, its set of lower-case \w{3,} words, whether it contains a    *)
(*    code fence and whether it contains an @./ or @/ prefix.              *)
(*  - Ratios (usage, relevance) are compared by cross-multiplication; the  *)
(*    Python floats agree with the exact comparison for every magnitude    *)
(*    used here.                                                           *)
(*  - None is -1 where the Python value is an optional number.             *)
(***************************************************************************)
EXTENDS Integers, Sequences, FiniteSets, TLC

VARIABLES
    sessions,                    \* rows of table sessions (their ids)
    messages,                    \* rows of table messages, ORDER BY timestamp
    file_references,             \* rows of table file_references
    compaction_history,          \* rows of table compaction_history, by id
    next_message_id,             \* AUTOINCREMENT of messages.id
    next_file_ref_id,            \* AUTOINCREMENT of file_references.id
    now,                         \* wall clock, seconds
    messages_since_compaction,   \* ContextManager._messages_since_compaction
    last_compaction_time,        \* ContextManager._last_compaction_time
    result,                      \* the last call and what it returned
    appends_since_event,         \* observer: add_message calls since the last
                                 \* call that recorded a compaction event
    config,                      \* what the engine was constructed with: max_tokens,
                                 \* llm_summarizer, MIN_MESSAGES_BETWEEN_COMPACTION
    session_rows,                \* rows of table sessions, by session_id
    embeddings,                  \* rows of table embeddings
    next_embedding_id,           \* AUTOINCREMENT of embeddings.id
    schema_version,              \* rows of table schema_version (their versions)
    tables,                      \* the tables of the database file (sqlite_master)
    backup,                      \* the last backup file: what was copied into it
    cache                        \* VectorEmbedder.cache, by text

vars == <<sessions, messages, file_references, compaction_history,
          next_message_id, next_file_ref_id, now,
          messages_since_compaction, last_compaction_time, result,
          appends_since_event, config, session_rows,
          embeddings, next_embedding_id, schema_version,
          tables, backup, cache>>

None == 0 - 1

\* SCHEMA_V1 and SCHEMA_V2: the tables they create.
V1Tables == {"sessions"}
V2Tables == {"schema_version", "messages", "file_references", "compaction_history",
             "embeddings"}

\* No backup file yet.
NoBackup == [path |-> "none", tables |-> {}, messages |-> <<>>, schema_version |-> {}]

\* VectorEmbedder(): cache = {}.
NoCache == << >>

\* In `result`: the call ended by an exception that reached its caller.
Raised == 0 - 2

\* ------------------------------------------------------------------ constants

SOFT_THRESHOLD == 50
HARD_THRESHOLD == 65
EMERGENCY_THRESHOLD == 80
MIN_MESSAGES_BETWEEN_COMPACTION == 2
MIN_TIME_BETWEEN_COMPACTION_SECONDS == 30
STALE_FILE_THRESHOLD == 3
MIN_MESSAGES_TO_KEEP == 4
RELEVANCE_KEEP_PERCENTAGE == 50
EMERGENCY_KEEP == 4
FLOOR_TOKENS == 50
DEFAULT_MAX_CONTEXT_TOKENS == 64000
SECONDS_PER_DAY == 86400
SCHEMA_VERSION == 2

\* ------------------------------------------------------------------ bounds

MaxTokens == 100      \* max_tokens of the engine
MaxAppends == 6       \* add_message calls in one behaviour
MaxEvents == 1        \* compaction events after which no explicit compaction is issued
MaxTime == 30         \* last value of the wall clock
TickStep == 15        \* seconds per Tick
MaxMessages == 7      \* save_message calls on the store in one behaviour
MaxStoreMessages == 5 \* the same, where two sessions share the store
MaxIntegrityMessages == 6 \* the same, where every table is written
MaxOwnedRows == 2     \* file references, embeddings and events inserted directly
MaxOtherMessages == 2 \* there: the messages among which session "B" has its own
MaxMigratedMessages == 4 \* message rows after which the database is not reopened
MaxStaleMessages == 4  \* messages saved before the stale-file queries
MaxStaleRefs == 3      \* file references tracked there
MaxStaleThreshold == 2 \* greatest stale_threshold queried
MaxRestartAppends == 7 \* add_message calls of the engines constructed in turn
MaxSoftMessages == 5   \* add_message calls before and between the file compressions
MaxSoftEvents == 2     \* events after which no file compression is forced
MaxIsolationMessages == 6 \* add_message calls of the engines of two sessions
MaxIsolationEvents == 1 \* events after which neither engine is forced to compact
MaxForceEvents == 2    \* events after which force_compact is not called again

\* ------------------------------------------------------------------ helpers

Max(a, b) == IF a >= b THEN a ELSE b
Min(a, b) == IF a <= b THEN a ELSE b

RECURSIVE SumTokens(_)
SumTokens(seq) ==
    IF seq = <<>> THEN 0 ELSE Head(seq).tokens + SumTokens(Tail(seq))

Range(seq) == {seq[i] : i \in 1..Len(seq)}

Digits(n) == IF n < 10 THEN 1 ELSE IF n < 100 THEN 2 ELSE 3

\* ------------------------------------------------------------------ contents

Content(len, words, code, fileref) ==
    [len |-> len, words |-> words, code |-> code, fileref |-> fileref]

\* "apple banana", "python code function", "python code class" (scenario S3 of
\* the tests and the spec), and a code-bearing answer.
AppleBanana == Content(12, {"apple", "banana"}, FALSE, FALSE)
PythonFunction == Content(20, {"python", "code", "function"}, FALSE, FALSE)
PythonClass == Content(17, {"python", "code", "class"}, FALSE, FALSE)

\* "Hello" and "Hi there!", the legacy history of the migration test.
Hello == Content(5, {"hello"}, FALSE, FALSE)
HiThere == Content(9, {"there"}, FALSE, FALSE)

\* ------------------------------------------------------------------ store

\* The database as one value: the tables and counters a call reads and writes.
Db == [messages |-> messages, file_references |-> file_references,
       compaction_history |-> compaction_history,
       next_message_id |-> next_message_id,
       next_file_ref_id |-> next_file_ref_id,
       embeddings |-> embeddings,
       next_embedding_id |-> next_embedding_id]

\* load_messages without its WHERE session_id = ? clause.
LoadMessagesAnySession(db, session_id) ==
    SelectSeq(db.messages, LAMBDA m : m.session_id = m.session_id)

LoadMessages(db, session_id) ==
    SelectSeq(db.messages, LAMBDA m : m.session_id = session_id)

GetMessageTokens(db, session_id) == SumTokens(LoadMessages(db, session_id))

SaveMessage(db, session_id, role, content, tokens, is_summary) ==
    [db EXCEPT
        !.messages = Append(@, [id |-> db.next_message_id,
                                session_id |-> session_id,
                                role |-> role,
                                content |-> content,
                                tokens |-> tokens,
                                timestamp |-> db.next_message_id,
                                is_summary |-> is_summary]),
        !.next_message_id = @ + 1]

TrackFileReference(db, message_id, file_path, mode, tokens) ==
    [db EXCEPT
        !.file_references = @ \cup {[id |-> db.next_file_ref_id,
                                     message_id |-> message_id,
                                     file_path |-> file_path,
                                     mode |-> mode,
                                     tokens |-> tokens]},
        !.next_file_ref_id = @ + 1]

\* DELETE FROM messages WHERE id IN (...) with the foreign keys off: the rows
\* that reference the messages stay.
DeleteMessagesOnly(db, message_ids) ==
    [db EXCEPT !.messages = SelectSeq(@, LAMBDA m : m.id \notin message_ids)]

\* DELETE FROM messages WHERE id IN (...), with ON DELETE CASCADE to
\* file_references and embeddings.
DeleteMessages(db, message_ids) ==
    [db EXCEPT
        !.messages = SelectSeq(@, LAMBDA m : m.id \notin message_ids),
        !.file_references = {r \in @ : r.message_id \notin message_ids},
        !.embeddings = {x \in @ : x.message_id \notin message_ids}]

\* EmbeddingStore.save_embedding: INSERT INTO embeddings (message_id, model, ...).
SaveEmbedding(db, message_id, model) ==
    [db EXCEPT
        !.embeddings = @ \cup {[id |-> db.next_embedding_id,
                                message_id |-> message_id,
                                model |-> model]},
        !.next_embedding_id = @ + 1]

\* The foreign keys are not enforced: any owner is accepted.
ForeignKeyIgnored(owners, owner) == TRUE

\* PRAGMA foreign_keys = ON on every connection: an INSERT is accepted when the
\* row it references exists, and raises IntegrityError otherwise.
ForeignKeyHolds(owners, owner) == owner \in owners

MessageIds(db) == {m.id : m \in Range(db.messages)}

\* The file references of one message, as a sequence by id.
RECURSIVE SetToSeqById(_)
SetToSeqById(S) ==
    IF S = {} THEN <<>>
    ELSE LET x == CHOOSE y \in S : \A z \in S : y.id <= z.id
         IN <<x>> \o SetToSeqById(S \ {x})

\* SELECT fr.* FROM file_references fr JOIN messages m ... WHERE m.session_id = ?
\* [AND fr.file_path = ?] ORDER BY m.timestamp DESC.  file_path = "" stands for
\* the absent filter.
RECURSIVE RefsNewestFirst(_, _, _)
RefsNewestFirst(db, msgs, file_path) ==
    IF msgs = <<>> THEN <<>>
    ELSE LET m == msgs[Len(msgs)]
             own == {r \in db.file_references :
                        /\ r.message_id = m.id
                        /\ (file_path = "" \/ r.file_path = file_path)}
         IN SetToSeqById(own)
               \o RefsNewestFirst(db, SubSeq(msgs, 1, Len(msgs) - 1), file_path)

GetFileReferences(db, session_id, file_path) ==
    RefsNewestFirst(db, LoadMessages(db, session_id), file_path)

\* The ids of the `n` newest messages of the session (ORDER BY timestamp DESC LIMIT n).
RecentIds(db, session_id, n) ==
    LET msgs == LoadMessages(db, session_id)
    IN {msgs[i].id : i \in {j \in 1..Len(msgs) : j > Len(msgs) - n}}

\* get_stale_files: per file_path, the row with the greatest message_id among the
\* rows that pass the mode filter (GROUP BY file_path HAVING message_id =
\* MAX(message_id); SQLite takes the bare columns from the row of the maximum),
\* kept when that message is not among the stale_threshold newest.  An empty
\* recent set (no message, or stale_threshold = 0) returns nothing.
\* mode_filter = "" stands for the absent filter.
GetStaleFiles(db, session_id, stale_threshold, mode_filter) ==
    LET recent_ids == RecentIds(db, session_id, stale_threshold)
        ids == {m.id : m \in Range(LoadMessages(db, session_id))}
        rows == {r \in db.file_references :
                    /\ r.message_id \in ids
                    /\ (mode_filter = "" \/ r.mode = mode_filter)}
        all_files == {r \in rows :
                        \A q \in rows :
                            q.file_path = r.file_path => q.message_id <= r.message_id}
    IN IF recent_ids = {} THEN {}
       ELSE {[file_path |-> r.file_path, mode |-> r.mode, tokens |-> r.tokens,
              message_id |-> r.message_id] :
                r \in {f \in all_files : f.message_id \notin recent_ids}}

UpdateFileReferenceMode(db, file_ref_id, new_mode, new_tokens) ==
    [db EXCEPT
        !.file_references =
            {IF r.id = file_ref_id
                THEN [r EXCEPT !.mode = new_mode, !.tokens = new_tokens]
                ELSE r : r \in @}]

RecordCompaction(db, session_id, level, tokens_before, tokens_after, strategy, details) ==
    [db EXCEPT
        !.compaction_history = Append(@, [session_id |-> session_id,
                                          timestamp |-> now,
                                          level |-> level,
                                          tokens_before |-> tokens_before,
                                          tokens_after |-> tokens_after,
                                          tokens_freed |-> tokens_before - tokens_after,
                                          strategy |-> strategy,
                                          details |-> details])]

ALLOWED_UPDATE_COLUMNS ==
    {"context", "last_used", "history_json", "metadata_json", "max_context_tokens",
     "system_prompt"}

\* update_session raises ValueError: some key of a non-empty `updates` is not in
\* the whitelist (the check runs over all keys before anything is written).
UpdateRejected(updates) ==
    /\ DOMAIN updates # {}
    /\ \E key \in DOMAIN updates : key \notin ALLOWED_UPDATE_COLUMNS

\* update_session without the whitelist check: every key that names a column is
\* written.
UpdateSessionUnchecked(rows, session_id, updates) ==
    IF session_id \notin DOMAIN rows THEN rows
    ELSE [rows EXCEPT ![session_id] =
            [k \in DOMAIN @ |-> IF k \in DOMAIN updates THEN updates[k] ELSE @[k]]]

\* update_session on the rows of table sessions: nothing for empty updates,
\* nothing when the call is rejected, else UPDATE sessions SET key = value, ...
\* WHERE session_id = ? (no row, no change).
UpdateSession(rows, session_id, updates) ==
    IF DOMAIN updates = {} THEN rows
    ELSE IF UpdateRejected(updates) THEN rows
    ELSE IF session_id \notin DOMAIN rows THEN rows
    ELSE [rows EXCEPT ![session_id] =
            [k \in DOMAIN @ |-> IF k \in DOMAIN updates THEN updates[k] ELSE @[k]]]

\* DELETE FROM sessions leaves the tables that reference it as they are.
CascadeNothing(db, session_ids) == db

\* What DELETE FROM sessions does to the other tables (PRAGMA foreign_keys = ON;
\* ON DELETE CASCADE): the sessions' messages go, with them their file
\* references and embeddings, and the sessions' compaction history.
CascadeDelete(db, session_ids) ==
    [DeleteMessages(db, {m.id : m \in {x \in Range(db.messages) :
                                            x.session_id \in session_ids}})
        EXCEPT !.compaction_history =
                  SelectSeq(@, LAMBDA e : e.session_id \notin session_ids)]

\* _get_schema_version: MAX(version) of table schema_version, 1 when it has no
\* row (_ensure_schema has created the table before the call).
GetSchemaVersion(versions) ==
    IF versions = {} THEN 1 ELSE CHOOSE v \in versions : \A w \in versions : w <= v

\* The column history_json as json.loads and the isinstance checks of the
\* migration read it: NULL or '' ("null"), a JSON list of messages ("list"), or
\* the JSON object {"messages": [...]} that SessionManager writes ("envelope").
History(kind, items) == [kind |-> kind, items |-> items]

\* The inner loop of _migrate_v1_to_v2: one INSERT INTO messages per element,
\* tokens = len(content) // 4.
RECURSIVE InsertHistory(_, _, _)
InsertHistory(db, session_id, items) ==
    IF items = <<>> THEN db
    ELSE InsertHistory(SaveMessage(db, session_id, Head(items).role,
                                   Head(items).content,
                                   Head(items).content.len \div 4, FALSE),
                       session_id, Tail(items))

\* _migrate_v1_to_v2 over the sessions `order` (the rows of the SELECT): the
\* history is inserted when it is not NULL and json.loads gives a list.
RECURSIVE MigrateV1ToV2(_, _, _)
MigrateV1ToV2(db, rows, order) ==
    IF order = <<>> THEN db
    ELSE LET session_id == Head(order)
             history == rows[session_id].history_json
         IN MigrateV1ToV2(
               IF history.kind = "list"
                  THEN InsertHistory(db, session_id, history.items) ELSE db,
               rows, Tail(order))

\* ORDER BY timestamp DESC LIMIT 1: the last row of the session (rows are appended
\* with non-decreasing timestamps), or None.
GetLastCompaction(db, session_id) ==
    LET own == SelectSeq(db.compaction_history, LAMBDA e : e.session_id = session_id)
    IN IF own = <<>> THEN None ELSE own[Len(own)].timestamp

\* ------------------------------------------------------------------ relevance

\* A score is the exact ratio <<numerator, denominator>> of the float the code computes.
ScoreGreater(a, b) == a[1] * b[2] > b[1] * a[2]

Boost(score, applies, num, den) ==
    IF applies THEN <<score[1] * num, score[2] * den>> ELSE score

\* _apply_relevance_boosts: x1.1 for an assistant message, x1.2 for a code fence,
\* x1.15 for a file-reference prefix, capped at 1.0.
ApplyRelevanceBoosts(message, base_score) ==
    LET s1 == Boost(base_score, message.role = "assistant", 11, 10)
        s2 == Boost(s1, message.content.code, 12, 10)
        s3 == Boost(s2, message.content.fileref, 115, 100)
    IN IF s3[1] > s3[2] THEN <<1, 1>> ELSE s3

\* _calculate_keyword_relevance: Jaccard similarity of the two keyword sets.
CalculateKeywordRelevance(message, context_words) ==
    LET message_words == message.content.words
        intersection == Cardinality(message_words \cap context_words)
        union == Cardinality(message_words \cup context_words)
    IN IF message_words = {} \/ context_words = {} THEN <<0, 1>>
       ELSE IF union = 0 THEN <<0, 1>>
       ELSE ApplyRelevanceBoosts(message, <<intersection, union>>)

\* VectorEmbedder.score_relevance when embed returned None for the text or for
\* the context: cosine_similarity gives 0.0 and the score is (0.0 + 1) / 2.
ScoreRelevanceWithoutEmbedding == <<1, 2>>

\* _calculate_relevance.  config.vector_scoring says what _get_vector_embedder
\* and the embedder do: "off" (use_vector_scoring is False) and "unavailable"
\* (is_available() is False) give no embedder and the keyword score; "fails" is
\* an available embedder whose embed returns None.  (The vectors of a working
\* embedder come from the Ollama model and are not modelled.)
CalculateRelevance(message, context_words) ==
    IF config.vector_scoring \in {"off", "unavailable"}
       THEN CalculateKeywordRelevance(message, context_words)
       ELSE LET vector_score == ScoreRelevanceWithoutEmbedding
            IN IF vector_score[1] > 0
                  THEN ApplyRelevanceBoosts(message, vector_score)
                  ELSE CalculateKeywordRelevance(message, context_words)

\* ------------------------------------------------------------------ engine

\* The engine of one session as one value: the store and its two cooldown fields.
Engine(session_id) ==
    [db |-> Db,
     messages_since_compaction |-> messages_since_compaction[session_id],
     last_compaction_time |-> last_compaction_time[session_id]]

\* The details of an event: (files_compressed, tokens_saved), (messages_deleted,
\* messages_kept) or (messages_summarized, summary_tokens); None for absent keys.
Details(fc, ts, md, mk, ms, st) ==
    [files_compressed |-> fc, tokens_saved |-> ts,
     messages_deleted |-> md, messages_kept |-> mk,
     messages_summarized |-> ms, summary_tokens |-> st]

\* _determine_level with strict comparisons: a usage on a threshold stays below it.
DetermineLevelStrict(current_tokens, max_tokens) ==
    IF max_tokens <= 0 THEN 0
    ELSE IF current_tokens * 100 > EMERGENCY_THRESHOLD * max_tokens THEN 3
    ELSE IF current_tokens * 100 > HARD_THRESHOLD * max_tokens THEN 2
    ELSE IF current_tokens * 100 > SOFT_THRESHOLD * max_tokens THEN 1
    ELSE 0

\* _determine_level, on usage = current_tokens / max_tokens (0.0 when max_tokens <= 0).
DetermineLevel(current_tokens, max_tokens) ==
    IF max_tokens <= 0 THEN 0
    ELSE IF current_tokens * 100 >= EMERGENCY_THRESHOLD * max_tokens THEN 3
    ELSE IF current_tokens * 100 >= HARD_THRESHOLD * max_tokens THEN 2
    ELSE IF current_tokens * 100 >= SOFT_THRESHOLD * max_tokens THEN 1
    ELSE 0

\* _can_compact without its time gate.
CanCompactCountOnly(e) ==
    e.messages_since_compaction >= config.MIN_MESSAGES_BETWEEN_COMPACTION

\* _can_compact.  self.MIN_MESSAGES_BETWEEN_COMPACTION is the class attribute
\* unless the instance was configured with another value.
CanCompact(e) ==
    IF e.messages_since_compaction < config.MIN_MESSAGES_BETWEEN_COMPACTION THEN FALSE
    ELSE IF /\ e.last_compaction_time # None
            /\ now - e.last_compaction_time < MIN_TIME_BETWEEN_COMPACTION_SECONDS
         THEN FALSE
    ELSE TRUE

\* _record_compaction: the audit row, then the cooldown restarts.
EngineRecordCompaction(e, session_id, level, tokens_before, tokens_after, strategy, details) ==
    [db |-> RecordCompaction(e.db, session_id, level, tokens_before, tokens_after,
                             strategy, details),
     messages_since_compaction |-> 0,
     last_compaction_time |-> now]

SummaryTokens(original_tokens) == Max(FLOOR_TOKENS, original_tokens \div 10)

\* The loop body of _soft_compact and _emergency_compact for the stale files
\* `stale`: the newest reference of the file's path (refs[0] of
\* get_file_references) is rewritten to mode summary.
RECURSIVE CompressFiles(_, _, _)
CompressFiles(db, session_id, stale) ==
    IF stale = {} THEN [db |-> db, compressed_count |-> 0, tokens_saved |-> 0]
    ELSE LET file_info == CHOOSE f \in stale : TRUE
             refs == GetFileReferences(db, session_id, file_info.file_path)
             rest == stale \ {file_info}
         IN IF refs = <<>> THEN CompressFiles(db, session_id, rest)
            ELSE LET latest_ref == refs[1]
                     original_tokens == latest_ref.tokens
                     summary_tokens == SummaryTokens(original_tokens)
                     next == CompressFiles(
                                UpdateFileReferenceMode(db, latest_ref.id, "summary",
                                                        summary_tokens),
                                session_id, rest)
                 IN [db |-> next.db,
                     compressed_count |-> next.compressed_count + 1,
                     tokens_saved |-> next.tokens_saved
                                        + (original_tokens - summary_tokens)]

\* _soft_compact (Level 1).  Returns the engine and the tokens saved.
SoftCompact(e, session_id) ==
    LET tokens_before == GetMessageTokens(e.db, session_id)
        stale_files == GetStaleFiles(e.db, session_id, STALE_FILE_THRESHOLD, "full")
        done == CompressFiles(e.db, session_id, stale_files)
        tokens_after == GetMessageTokens(done.db, session_id)
        e1 == [e EXCEPT !.db = done.db]
    IN [e |-> IF done.compressed_count > 0
                THEN EngineRecordCompaction(e1, session_id, 1, tokens_before,
                        tokens_after, "file_compress",
                        Details(done.compressed_count, done.tokens_saved,
                                None, None, None, None))
                ELSE e1,
        ret |-> done.tokens_saved]

\* The oldest keep_count candidates, whatever their scores.
KeptPositionsOldest(older_messages, context_words, keep_count) ==
    {i \in 1..Len(older_messages) : i <= keep_count}

\* The candidates Level 2 keeps: scored_messages.sort(key=score, reverse=True) is
\* stable, so among equal scores the earlier (older) candidate comes first; the
\* first keep_count of the sorted list are kept.  Returns the kept positions.
KeptPositions(older_messages, context_words, keep_count) ==
    LET score(i) == CalculateRelevance(older_messages[i], context_words)
        before(j, i) ==
            \/ ScoreGreater(score(j), score(i))
            \/ (~ScoreGreater(score(i), score(j)) /\ j < i)
        rank(i) == Cardinality({j \in 1..Len(older_messages) : before(j, i)})
    IN {i \in 1..Len(older_messages) : rank(i) < keep_count}

\* Every candidate is kept.
KeepCountAll(candidates) == candidates

KeepCount(candidates) == Max(1, (candidates * RELEVANCE_KEEP_PERCENTAGE) \div 100)

\* The recent window one message short.
RecentMessagesOneShort(msgs) ==
    SubSeq(msgs, Len(msgs) - MIN_MESSAGES_TO_KEEP + 2, Len(msgs))

\* messages[-MIN_MESSAGES_TO_KEEP:], for a list longer than MIN_MESSAGES_TO_KEEP.
RecentMessages(msgs) ==
    SubSeq(msgs, Len(msgs) - MIN_MESSAGES_TO_KEEP + 1, Len(msgs))

\* [m for m in messages if m["id"] not in recent_ids]
OlderMessages(msgs) ==
    LET recent_ids == {m.id : m \in Range(RecentMessages(msgs))}
    IN SelectSeq(msgs, LAMBDA m : m.id \notin recent_ids)

\* _hard_compact after its Level 1 prelude, on the engine `e1` the prelude left:
\* load, split into recent and older, score, sort, keep, delete, record.
PruneMessages(e1, session_id, tokens_before) ==
    LET msgs == LoadMessages(e1.db, session_id)
        n == Len(msgs)
        recent_messages == RecentMessages(msgs)
        older_messages == OlderMessages(msgs)
        recent_context == UNION {m.content.words : m \in Range(recent_messages)}
        keep_count == KeepCount(Len(older_messages))
        kept == KeptPositions(older_messages, recent_context, keep_count)
        delete_ids == {older_messages[i].id : i \in (1..Len(older_messages)) \ kept}
        db2 == IF delete_ids # {} THEN DeleteMessages(e1.db, delete_ids) ELSE e1.db
        tokens_after == GetMessageTokens(db2, session_id)
        e2 == [e1 EXCEPT !.db = db2]
    IN IF n <= MIN_MESSAGES_TO_KEEP THEN [e |-> e1, ret |-> 0]
       ELSE IF older_messages = <<>> THEN [e |-> e1, ret |-> 0]
       ELSE [e |-> IF delete_ids # {}
                     THEN EngineRecordCompaction(e2, session_id, 2, tokens_before,
                            tokens_after, "message_prune",
                            Details(None, None, Cardinality(delete_ids),
                                    keep_count + Len(recent_messages), None, None))
                     ELSE e2,
             ret |-> tokens_before - tokens_after]

\* _hard_compact (Level 2): tokens_before is read, _soft_compact runs first, then
\* the messages are pruned.  Returns the engine and the tokens freed.
HardCompact(e, session_id) ==
    PruneMessages(SoftCompact(e, session_id).e, session_id,
                  GetMessageTokens(e.db, session_id))

\* _create_fallback_summary: the text, as a content.  Its length is that of
\* "Conversation contained {u} user messages and {a} assistant responses." (63 +
\* digits), "\nStarted with: {first 200 chars}..." (18 + min(200, len)),
\* "\nIncluded {n} code-related exchanges." (34 + digits) and
\* "\nReferenced files in {n} messages." (31 + digits).
CreateFallbackSummary(msgs) ==
    LET CountWhere(P(_)) == Cardinality({i \in 1..Len(msgs) : P(msgs[i])})
        user_count == CountWhere(LAMBDA m : m.role = "user")
        assistant_count == CountWhere(LAMBDA m : m.role = "assistant")
        first == msgs[1].content
        code_messages == CountWhere(LAMBDA m : m.content.code)
        file_refs == CountWhere(LAMBDA m : m.content.fileref)
    IN Content(
        63 + Digits(user_count) + Digits(assistant_count)
           + 18 + Min(200, first.len)
           + (IF code_messages > 0 THEN 34 + Digits(code_messages) ELSE 0)
           + (IF file_refs > 0 THEN 31 + Digits(file_refs) ELSE 0),
        {"conversation", "contained", "user", "messages", "and", "assistant",
         "responses", "started", "with"}
           \cup first.words
           \cup (IF code_messages > 0
                    THEN {"included", "code", "related", "exchanges"} ELSE {})
           \cup (IF file_refs > 0 THEN {"referenced", "files", "messages"} ELSE {}),
        first.code,
        first.fileref)

\* f"[Previous conversation summary]\n{summary_text}"
SummaryContent(summary_text) ==
    Content(32 + summary_text.len,
            {"previous", "conversation", "summary"} \cup summary_text.words,
            summary_text.code, summary_text.fileref)

\* The summarized part one message longer: only 3 messages are kept.
MessagesToSummarizeOneMore(msgs) ==
    LET keep_count == Min(EMERGENCY_KEEP - 1, Len(msgs))
    IN IF keep_count < Len(msgs) THEN SubSeq(msgs, 1, Len(msgs) - keep_count)
       ELSE <<>>

\* keep_count = min(4, len(messages)); messages[:-keep_count] if there are more.
MessagesToSummarize(msgs) ==
    LET keep_count == Min(EMERGENCY_KEEP, Len(msgs))
    IN IF keep_count < Len(msgs) THEN SubSeq(msgs, 1, Len(msgs) - keep_count)
       ELSE <<>>

\* The llm_summarizer of the tests: f"Custom summary of {len(messages)} messages".
MockSummary(msgs) ==
    Content(18 + Digits(Len(msgs)) + 9, {"custom", "summary", "of", "messages"},
            FALSE, FALSE)

\* summary_text: self.llm_summarizer(messages_to_summarize) when a summarizer is
\* configured ("text": it returns a summary; "empty": it returns the empty
\* string), else the fallback.
Summarize(msgs) ==
    IF config.llm_summarizer = "none" THEN CreateFallbackSummary(msgs)
    ELSE IF config.llm_summarizer = "empty" THEN Content(0, {}, FALSE, FALSE)
    ELSE MockSummary(msgs)

\* The call self.llm_summarizer(messages_to_summarize) is reached and raises:
\* nothing catches it in _emergency_compact, _auto_compact or add_message.
SummarizerRaises(e, session_id) ==
    /\ config.llm_summarizer = "raises"
    /\ MessagesToSummarize(LoadMessages(e.db, session_id)) # <<>>

\* _emergency_compact (Level 3).  Returns the engine and the tokens freed; when
\* the summarizer raises, the engine as it is at the raise.
EmergencyCompact(e, session_id) ==
    LET tokens_before == GetMessageTokens(e.db, session_id)
        stale_files == GetStaleFiles(e.db, session_id, 0, "full")
        db1 == CompressFiles(e.db, session_id, stale_files).db
        msgs == LoadMessages(db1, session_id)
        messages_to_summarize == MessagesToSummarize(msgs)
        summary_text == Summarize(messages_to_summarize)
        delete_ids == {m.id : m \in Range(messages_to_summarize)}
        db2 == DeleteMessages(db1, delete_ids)
        summary_tokens == summary_text.len \div 4
        db3 == SaveMessage(db2, session_id, "system", SummaryContent(summary_text),
                           summary_tokens, TRUE)
        tokens_after == GetMessageTokens(db3, session_id)
    IN IF messages_to_summarize = <<>>
         THEN [e |-> [e EXCEPT !.db = db1],
               ret |-> tokens_before - GetMessageTokens(db1, session_id)]
       ELSE IF SummarizerRaises(e, session_id)
         THEN [e |-> [e EXCEPT !.db = db1], ret |-> 0]
         ELSE [e |-> EngineRecordCompaction([e EXCEPT !.db = db3], session_id, 3,
                        tokens_before, tokens_after, "llm_summary",
                        Details(None, None, None, None,
                                Len(messages_to_summarize), summary_tokens)),
               ret |-> tokens_before - tokens_after]

\* _hard_compact stopped after its delete_messages call: each store method
\* opens its own connection and commits, so the deletion (and what
\* _soft_compact wrote) stays; _record_compaction was not reached.
HardCompactInterrupted(e, session_id) ==
    LET e1 == SoftCompact(e, session_id).e
        msgs == LoadMessages(e1.db, session_id)
        older_messages == OlderMessages(msgs)
        recent_context == UNION {m.content.words : m \in Range(RecentMessages(msgs))}
        kept == KeptPositions(older_messages, recent_context,
                              KeepCount(Len(older_messages)))
        delete_ids == {older_messages[i].id : i \in (1..Len(older_messages)) \ kept}
    IN IF Len(msgs) <= MIN_MESSAGES_TO_KEEP \/ older_messages = <<>> \/ delete_ids = {}
          THEN e1
          ELSE [e1 EXCEPT !.db = DeleteMessages(e1.db, delete_ids)]

\* _emergency_compact stopped after `ops` of its store calls delete_messages
\* (1) and save_message of the summary (2); _record_compaction was not reached.
EmergencyCompactInterrupted(e, session_id, ops) ==
    LET stale_files == GetStaleFiles(e.db, session_id, 0, "full")
        db1 == CompressFiles(e.db, session_id, stale_files).db
        messages_to_summarize == MessagesToSummarize(LoadMessages(db1, session_id))
        summary_text == Summarize(messages_to_summarize)
        db2 == DeleteMessages(db1, {m.id : m \in Range(messages_to_summarize)})
        db3 == SaveMessage(db2, session_id, "system", SummaryContent(summary_text),
                           summary_text.len \div 4, TRUE)
    IN IF messages_to_summarize = <<>> \/ SummarizerRaises(e, session_id)
          THEN [e EXCEPT !.db = db1]
          ELSE [e EXCEPT !.db = IF ops = 1 THEN db2 ELSE db3]

\* The strategy dispatch shared by _auto_compact and force_compact.
RunLevel(e, session_id, level) ==
    IF level >= 3 THEN EmergencyCompact(e, session_id)
    ELSE IF level >= 2 THEN HardCompact(e, session_id)
    ELSE SoftCompact(e, session_id)

\* The strategy of this level ends by an exception.
Raises(e, session_id, level) == level >= 3 /\ SummarizerRaises(e, session_id)

\* _auto_compact running the strategy one level above the one it computed.
AutoCompactOneLevelUp(e, session_id, max_tokens) ==
    LET level == DetermineLevel(GetMessageTokens(e.db, session_id), max_tokens)
    IN IF ~CanCompact(e) THEN [e |-> e, ret |-> None]
       ELSE IF level = 0 THEN [e |-> e, ret |-> 0]
       ELSE [e |-> RunLevel(e, session_id, level + 1).e,
             ret |-> IF Raises(e, session_id, level) THEN Raised ELSE level]

\* _auto_compact: None (cooldown), 0, or the level it ran; Raised when the
\* strategy raised.
AutoCompact(e, session_id, max_tokens) ==
    LET level == DetermineLevel(GetMessageTokens(e.db, session_id), max_tokens)
    IN IF ~CanCompact(e) THEN [e |-> e, ret |-> None]
       ELSE IF level = 0 THEN [e |-> e, ret |-> 0]
       ELSE [e |-> RunLevel(e, session_id, level).e,
             ret |-> IF Raises(e, session_id, level) THEN Raised ELSE level]

\* force_compact as it would be behind the cooldown of _auto_compact.
ForceCompactGated(e, session_id, level) ==
    LET tokens_before == GetMessageTokens(e.db, session_id)
        e1 == IF CanCompact(e) THEN RunLevel(e, session_id, level).e ELSE e
    IN [e |-> e1, ret |-> tokens_before - GetMessageTokens(e1.db, session_id)]

\* force_compact: the message-token total before minus the total after.
ForceCompact(e, session_id, level) ==
    LET tokens_before == GetMessageTokens(e.db, session_id)
        e1 == RunLevel(e, session_id, level).e
    IN [e |-> e1, ret |-> tokens_before - GetMessageTokens(e1.db, session_id)]

RECURSIVE TrackAll(_, _, _)
TrackAll(db, msg_id, file_refs) ==
    IF file_refs = <<>> THEN db
    ELSE TrackAll(TrackFileReference(db, msg_id, Head(file_refs)[1],
                                     Head(file_refs)[2], Head(file_refs)[3]),
                  msg_id, Tail(file_refs))

\* add_message: save, track the file references, count the message, _auto_compact.
\* Returns the message id (None when _auto_compact raised: the caller gets the
\* exception, not the id); `auto` is what the inner _auto_compact returned.
AddMessage(e, session_id, max_tokens, role, content, tokens, file_refs) ==
    LET msg_id == e.db.next_message_id
        db1 == SaveMessage(e.db, session_id, role, content, tokens, FALSE)
        db2 == TrackAll(db1, msg_id, file_refs)
        e1 == [e EXCEPT !.db = db2,
                        !.messages_since_compaction = @ + 1]
        done == AutoCompact(e1, session_id, max_tokens)
    IN [e |-> done.e,
        ret |-> IF done.ret = Raised THEN None ELSE msg_id,
        auto |-> done.ret]

\* ------------------------------------------------------------------ actions

Result(op, level, ret, auto) == [op |-> op, level |-> level, ret |-> ret, auto |-> auto]

\* The state after a call of the engine of `session_id` that ended in engine `e`.
Commit(session_id, e, res, appended) ==
    /\ messages' = e.db.messages
    /\ file_references' = e.db.file_references
    /\ compaction_history' = e.db.compaction_history
    /\ next_message_id' = e.db.next_message_id
    /\ next_file_ref_id' = e.db.next_file_ref_id
    /\ embeddings' = e.db.embeddings
    /\ next_embedding_id' = e.db.next_embedding_id
    /\ messages_since_compaction' =
          [messages_since_compaction EXCEPT ![session_id] = e.messages_since_compaction]
    /\ last_compaction_time' =
          [last_compaction_time EXCEPT ![session_id] = e.last_compaction_time]
    /\ result' = res
    /\ appends_since_event' =
          IF Len(e.db.compaction_history) > Len(compaction_history) THEN 0
          ELSE appends_since_event + appended
    /\ UNCHANGED <<sessions, now, config, session_rows, schema_version,
          tables, backup, cache>>

\* What callers append in the engine specification: (role, content, tokens).
Inputs ==
    {<<"user", AppleBanana, 15, <<>> >>,
     <<"assistant", PythonFunction, 50, <<>> >>,
     <<"user", PythonClass, 1, <<>> >>,
     <<"user", PythonClass, 1, << <<"/a.py", "full", 1000>> >> >>}

\* One call manager.add_message(role, content, tokens, file_refs).
CallAddMessage(session_id, input) ==
    \E r \in {AddMessage(Engine(session_id), session_id, config.max_tokens,
                         input[1], input[2], input[3], input[4])} :
        Commit(session_id, r.e, Result("add_message", None, r.ret, r.auto), 1)

DoAddMessage(session_id, input) ==
    /\ session_id \in sessions
    /\ next_message_id <= MaxAppends
    /\ CallAddMessage(session_id, input)

DoAutoCompact(session_id) ==
    /\ session_id \in sessions
    /\ Len(compaction_history) < MaxEvents
    /\ \E r \in {AutoCompact(Engine(session_id), session_id, config.max_tokens)} :
          Commit(session_id, r.e, Result("auto_compact", None, r.ret, r.ret), 0)

\* One call manager.force_compact(level).
CallForceCompact(session_id, level) ==
    \E r \in {ForceCompact(Engine(session_id), session_id, level)} :
        Commit(session_id, r.e,
               IF Raises(Engine(session_id), session_id, level)
                  THEN Result("force_compact", level, None, Raised)
                  ELSE Result("force_compact", level, r.ret, None), 0)

DoForceCompact(session_id, level) ==
    /\ session_id \in sessions
    /\ Len(compaction_history) < MaxEvents
    /\ CallForceCompact(session_id, level)

\* force_compact(level) of Level 2 or 3 that ends by an exception (a store
\* error, a cancellation) or with the process after `ops` store calls of the
\* strategy, counted from delete_messages.
DoInterruptedCompact(session_id, level, ops) ==
    /\ session_id \in sessions
    /\ Len(compaction_history) < MaxEvents
    /\ level \in 2..3
    /\ ops \in 1..(level - 1)
    /\ \E e \in {IF level = 3
                     THEN EmergencyCompactInterrupted(Engine(session_id), session_id, ops)
                     ELSE HardCompactInterrupted(Engine(session_id), session_id)} :
          Commit(session_id, e, Result("interrupted", level, ops, Raised), 0)

\* SessionDatabase.save_message called on the store directly, as the tests do to
\* populate a session: no engine is involved, so no counter moves and no
\* compaction runs.
DoSaveMessage(session_id, input) ==
    /\ session_id \in sessions
    /\ next_message_id <= MaxMessages
    /\ input[4] = <<>>
    /\ \E db \in {SaveMessage(Db, session_id, input[1], input[2], input[3], FALSE)} :
          Commit(session_id, [Engine(session_id) EXCEPT !.db = db],
                 Result("save_message", None, next_message_id, None), 0)

\* ContextManager.__init__ as it would be without the read of the last event.
NewEngineForgets(session_id) ==
    /\ session_id \in sessions
    /\ messages_since_compaction' = [messages_since_compaction EXCEPT ![session_id] = 0]
    /\ last_compaction_time' = [last_compaction_time EXCEPT ![session_id] = None]
    /\ result' = Result("init", None, None, None)
    /\ UNCHANGED <<sessions, messages, file_references, compaction_history,
                   next_message_id, next_file_ref_id, now, appends_since_event,
                   config, session_rows, embeddings, next_embedding_id,
                   schema_version,
          tables, backup, cache>>

\* ContextManager.__init__: the counter starts at 0, the time is read from the
\* session's last compaction event.
NewEngine(session_id) ==
    /\ session_id \in sessions
    /\ messages_since_compaction' = [messages_since_compaction EXCEPT ![session_id] = 0]
    /\ last_compaction_time' =
          [last_compaction_time EXCEPT ![session_id] = GetLastCompaction(Db, session_id)]
    /\ result' = Result("init", None, None, None)
    /\ UNCHANGED <<sessions, messages, file_references, compaction_history,
                   next_message_id, next_file_ref_id, now, appends_since_event,
                   config, session_rows, embeddings, next_embedding_id,
                   schema_version,
          tables, backup, cache>>

Tick ==
    /\ now + TickStep <= MaxTime
    /\ now' = now + TickStep
    /\ UNCHANGED <<sessions, messages, file_references, compaction_history,
                   next_message_id, next_file_ref_id, messages_since_compaction,
                   last_compaction_time, result, appends_since_event,
                   config, session_rows, embeddings, next_embedding_id,
                   schema_version,
          tables, backup, cache>>

\* create_session({"session_id": id}): the row with its defaults.  Text and
\* timestamp values are integers here: 0 is the empty text, None is NULL.
NewSessionRow(session_id) ==
    [session_id |-> session_id, context |-> 0, created_at |-> now, last_used |-> now,
     max_context_tokens |-> DEFAULT_MAX_CONTEXT_TOKENS, history_json |-> None,
     metadata_json |-> None, model_name |-> None, system_prompt |-> None]

\* ContextManager(db, session_id, max_tokens): no summarizer, the class
\* constants, no embedding model on the host.
DefaultConfig ==
    [max_tokens |-> MaxTokens,
     llm_summarizer |-> "none",
     MIN_MESSAGES_BETWEEN_COMPACTION |-> MIN_MESSAGES_BETWEEN_COMPACTION,
     vector_scoring |-> "unavailable"]

\* A created session "A", an empty store and a freshly constructed engine.
EmptyStore ==
    /\ sessions = {"A"}
    /\ messages = <<>>
    /\ file_references = {}
    /\ compaction_history = <<>>
    /\ next_message_id = 1
    /\ next_file_ref_id = 1
    /\ embeddings = {}
    /\ next_embedding_id = 1
    /\ schema_version = {SCHEMA_VERSION}
    /\ tables = V1Tables \cup V2Tables
    /\ backup = NoBackup
    /\ cache = NoCache
    /\ now = 0
    /\ session_rows = [s \in {"A"} |-> NewSessionRow(s)]
    /\ messages_since_compaction = [s \in {"A"} |-> 0]
    /\ last_compaction_time = [s \in {"A"} |-> None]
    /\ result = Result("init", None, None, None)
    /\ appends_since_event = 0

Init == EmptyStore /\ config = DefaultConfig

Next ==
    \/ \E input \in Inputs : DoAddMessage("A", input)
    \/ DoAutoCompact("A")
    \/ \E level \in 1..3 : DoForceCompact("A", level)
    \/ Tick

Spec == Init /\ [][Next]_vars

\* A session populated through the store, then compacted at Level 2 on demand.
PruneNext ==
    \/ \E input \in Inputs : DoSaveMessage("A", input)
    \/ DoForceCompact("A", 2)

PruneSpec == Init /\ [][PruneNext]_vars

\* The tables and counters become those of `db`.
StoreBecomes(db) ==
    /\ messages' = db.messages
    /\ file_references' = db.file_references
    /\ compaction_history' = db.compaction_history
    /\ next_message_id' = db.next_message_id
    /\ next_file_ref_id' = db.next_file_ref_id
    /\ embeddings' = db.embeddings
    /\ next_embedding_id' = db.next_embedding_id

\* create_session({"session_id": id}); an existing id violates the primary key.
DoCreateSession(session_id) ==
    /\ session_id \notin sessions
    /\ sessions' = sessions \cup {session_id}
    /\ session_rows' = [s \in sessions \cup {session_id} |->
                          IF s = session_id THEN NewSessionRow(s) ELSE session_rows[s]]
    /\ result' = Result("create_session", None, None, None)
    /\ UNCHANGED <<messages, file_references, compaction_history, next_message_id,
                   next_file_ref_id, now, messages_since_compaction,
                   last_compaction_time, appends_since_event, config,
                   embeddings, next_embedding_id, schema_version,
          tables, backup, cache>>

\* delete_session: the row goes and the delete cascades; returns whether a row
\* was deleted.
DoDeleteSession(session_id) ==
    /\ sessions' = sessions \ {session_id}
    /\ session_rows' = [s \in sessions \ {session_id} |-> session_rows[s]]
    /\ \E db \in {IF session_id \in sessions
                      THEN CascadeDelete(Db, {session_id}) ELSE Db} :
          StoreBecomes(db)
    /\ result' = Result("delete_session", None,
                        IF session_id \in sessions THEN 1 ELSE 0, None)
    /\ UNCHANGED <<now, messages_since_compaction, last_compaction_time,
                   appends_since_event, config, schema_version,
          tables, backup, cache>>

\* purge_sessions(days): DELETE FROM sessions WHERE last_used < now - days;
\* returns the number of sessions deleted.
DoPurgeSessions(days) ==
    LET cutoff == now - days * SECONDS_PER_DAY
        purged == {s \in sessions : session_rows[s].last_used < cutoff}
    IN /\ sessions' = sessions \ purged
       /\ session_rows' = [s \in sessions \ purged |-> session_rows[s]]
       /\ \E db \in {CascadeDelete(Db, purged)} : StoreBecomes(db)
       /\ result' = Result("purge_sessions", None, Cardinality(purged), None)
       /\ UNCHANGED <<now, messages_since_compaction, last_compaction_time,
                      appends_since_event, config, schema_version,
          tables, backup, cache>>

\* delete_messages(message_ids); returns the number of rows deleted.
DoDeleteMessages(message_ids) ==
    /\ message_ids # {}
    /\ \E db \in {DeleteMessages(Db, message_ids)} :
          /\ StoreBecomes(db)
          /\ result' = Result("delete_messages", None,
                              Len(messages) - Len(db.messages), None)
    /\ UNCHANGED <<sessions, session_rows, now, messages_since_compaction,
                   last_compaction_time, appends_since_event, config,
                   schema_version,
          tables, backup, cache>>

\* update_session(session_id, updates); `ret` is Raised when it raised ValueError.
DoUpdateSession(session_id, updates) ==
    /\ session_rows' = UpdateSession(session_rows, session_id, updates)
    /\ result' = Result("update_session", None,
                        IF UpdateRejected(updates) THEN Raised ELSE None, None)
    /\ UNCHANGED <<sessions, messages, file_references, compaction_history,
                   next_message_id, next_file_ref_id, now, messages_since_compaction,
                   last_compaction_time, appends_since_event, config,
                   embeddings, next_embedding_id, schema_version,
          tables, backup, cache>>

\* A call on the store that committed: the tables become those of `db`.
StoreCall(db, res) ==
    /\ StoreBecomes(db)
    /\ result' = res
    /\ UNCHANGED <<sessions, session_rows, now, messages_since_compaction,
                   last_compaction_time, appends_since_event, config,
                   schema_version,
          tables, backup, cache>>

\* A call on the store that raised before it committed anything.
StoreCallRaised(op) ==
    /\ result' = Result(op, None, Raised, None)
    /\ UNCHANGED <<sessions, messages, file_references, compaction_history,
                   next_message_id, next_file_ref_id, now, messages_since_compaction,
                   last_compaction_time, appends_since_event, config, session_rows,
                   embeddings, next_embedding_id, schema_version,
          tables, backup, cache>>

\* save_message for any session id: the INSERT, or IntegrityError.
CallSaveMessage(session_id, input) ==
    IF ForeignKeyHolds(sessions, session_id)
       THEN StoreCall(SaveMessage(Db, session_id, input[1], input[2], input[3], FALSE),
                      Result("save_message", None, next_message_id, None))
       ELSE StoreCallRaised("save_message")

\* track_file_reference for any message id.
CallTrackFileReference(message_id, ref) ==
    IF ForeignKeyHolds(MessageIds(Db), message_id)
       THEN StoreCall(TrackFileReference(Db, message_id, ref[1], ref[2], ref[3]),
                      Result("track_file_reference", None, next_file_ref_id, None))
       ELSE StoreCallRaised("track_file_reference")

\* EmbeddingStore.save_embedding for any message id.
CallSaveEmbedding(message_id, model) ==
    IF ForeignKeyHolds(MessageIds(Db), message_id)
       THEN StoreCall(SaveEmbedding(Db, message_id, model),
                      Result("save_embedding", None, next_embedding_id, None))
       ELSE StoreCallRaised("save_embedding")

\* record_compaction for any session id, as the store's own API.
CallRecordCompaction(session_id, level, tokens_before, tokens_after, strategy) ==
    IF ForeignKeyHolds(sessions, session_id)
       THEN StoreCall(RecordCompaction(Db, session_id, level, tokens_before,
                                       tokens_after, strategy,
                                       Details(None, None, None, None, None, None)),
                      Result("record_compaction", None,
                             Len(compaction_history) + 1, None))
       ELSE StoreCallRaised("record_compaction")

\* ------------------------------------------------------------------ embedder

\* An Optional[List[float]]: None, or a list (which may be empty).
NoEmbedding == [found |-> FALSE, vector |-> << >>]
Embedding(vector) == [found |-> TRUE, vector |-> vector]

\* `if embedding`: not None and not the empty list.
Truthy(embedding) == embedding.found /\ embedding.vector # << >>

\* Texts are sequences of characters; `not text or not text.strip()`.
Whitespace == {" ", "\t", "\n"}
IsBlankText(text) == \A i \in 1..Len(text) : text[i] \in Whitespace

\* What the endpoint answers for a model: its vector.
ModelVector(model) == IF model = "nomic-embed-text" THEN <<1, 2>> ELSE <<3, 4>>

\* _try_embed(text, model).  `outcome` is what the request does: "fail" (an
\* exception, or a response without "embedding": None), "vector" (the
\* response's embedding), "empty" (a response whose embedding is []).
TryEmbed(model, outcome) ==
    IF model = "" THEN NoEmbedding
    ELSE IF outcome = "fail" THEN NoEmbedding
    ELSE IF outcome = "empty" THEN Embedding(<< >>)
    ELSE Embedding(ModelVector(model))

\* embed(text, use_cache) on an embedder of `model` and `fallback_model` ("" for
\* none).  The cache key is the MD5 of model:text, so for one embedder the
\* text.  Returns the embedding, the models requested in order, the cache.
Embed(model, fallback_model, text, use_cache, primary, fallback) ==
    LET first == TryEmbed(model, primary)
        try_fallback == ~first.found /\ fallback_model # ""
        embedding == IF try_fallback THEN TryEmbed(fallback_model, fallback)
                     ELSE first
    IN IF IsBlankText(text)
         THEN [ret |-> NoEmbedding, calls |-> << >>, cache |-> cache]
       ELSE IF use_cache /\ text \in DOMAIN cache
         THEN [ret |-> cache[text], calls |-> << >>, cache |-> cache]
       ELSE [ret |-> embedding,
             calls |-> IF try_fallback THEN <<model, fallback_model>> ELSE <<model>>,
             cache |-> IF Truthy(embedding) /\ use_cache
                          THEN [x \in DOMAIN cache \cup {text} |->
                                   IF x = text THEN embedding ELSE cache[x]]
                          ELSE cache]

\* What embed returned, with its arguments and what the endpoint did.
EmbedResult(r, text, use_cache, fallback_model, primary, fallback) ==
    [op |-> "embed", level |-> None, ret |-> r.ret, auto |-> None,
     calls |-> r.calls, text |-> text, use_cache |-> use_cache,
     fallback_model |-> fallback_model, primary |-> primary, fallback |-> fallback]

\* One call embedder.embed(text, use_cache) on VectorEmbedder(fallback_model=...).
DoEmbed(fallback_model, text, use_cache, primary, fallback) ==
    /\ \E r \in {Embed("nomic-embed-text", fallback_model, text, use_cache,
                        primary, fallback)} :
          /\ cache' = r.cache
          /\ result' = EmbedResult(r, text, use_cache, fallback_model, primary, fallback)
    /\ UNCHANGED <<sessions, messages, file_references, compaction_history,
                   next_message_id, next_file_ref_id, now, messages_since_compaction,
                   last_compaction_time, appends_since_event, config, session_rows,
                   embeddings, next_embedding_id, schema_version, tables, backup>>

\* What get_stale_files returned, with the arguments of the call.
StaleResult(ret, stale_threshold, mode_filter) ==
    [op |-> "get_stale_files", level |-> None, ret |-> ret, auto |-> None,
     stale_threshold |-> stale_threshold, mode_filter |-> mode_filter]

\* get_stale_files: a query, nothing is written.
CallGetStaleFiles(session_id, stale_threshold, mode_filter) ==
    /\ result' = StaleResult(GetStaleFiles(Db, session_id, stale_threshold, mode_filter),
                             stale_threshold, mode_filter)
    /\ UNCHANGED <<sessions, messages, file_references, compaction_history,
                   next_message_id, next_file_ref_id, now, messages_since_compaction,
                   last_compaction_time, appends_since_event, config, session_rows,
                   embeddings, next_embedding_id, schema_version,
          tables, backup, cache>>

\* What SessionDatabase(db_path) returned: `ret` is Raised for the RuntimeError
\* of a failed migration, `backup_path` what its message names ("none" when
\* _backup_database returned None or no migration ran).
OpenResult(ret, backup_path) ==
    [op |-> "open", level |-> None, ret |-> ret, auto |-> None,
     backup_path |-> backup_path]

\* SessionDatabase.__init__ on the existing file: _ensure_schema, then
\* _migrate_if_needed.  `backup_ok`: shutil.copy2 succeeds.  `fail`: the step of
\* the migration at which the store raises ("tables": executescript of the V2
\* schema, "insert": an INSERT of a message, "commit": the commit of the
\* inserts, "version": _set_schema_version), or "none".  The inserts are one
\* transaction, lost when the connection is closed without commit; the version
\* row is written after that transaction was committed.
DoOpen(backup_ok, fail) ==
    LET current_version == GetSchemaVersion(schema_version)
        backup_path == IF backup_ok THEN "sessions.db.backup" ELSE "none"
        order == SelectSeq(<<"A", "B">>, LAMBDA s : s \in sessions)
        ensured == tables \cup V1Tables \cup V2Tables
        copied == IF backup_ok
                     THEN [path |-> backup_path, tables |-> ensured,
                           messages |-> messages, schema_version |-> schema_version]
                     ELSE backup
    IN IF current_version >= SCHEMA_VERSION
         THEN /\ result' = OpenResult(None, "none")
              /\ tables' = ensured
              /\ UNCHANGED <<sessions, messages, file_references, compaction_history,
                             next_message_id, next_file_ref_id, now,
                             messages_since_compaction, last_compaction_time,
                             appends_since_event, config, session_rows, embeddings,
                             next_embedding_id, schema_version, backup, cache>>
       ELSE IF fail \in {"tables", "insert", "commit"}
         THEN /\ result' = OpenResult(Raised, backup_path)
              /\ tables' = ensured
              /\ backup' = copied
              /\ UNCHANGED <<sessions, messages, file_references, compaction_history,
                             next_message_id, next_file_ref_id, now,
                             messages_since_compaction, last_compaction_time,
                             appends_since_event, config, session_rows, embeddings,
                             next_embedding_id, schema_version, cache>>
       ELSE /\ StoreBecomes(MigrateV1ToV2(Db, session_rows, order))
            /\ schema_version' = IF fail = "version" THEN schema_version
                                  ELSE schema_version \cup {SCHEMA_VERSION}
            /\ tables' = ensured
            /\ backup' = copied
            /\ result' = OpenResult(IF fail = "version" THEN Raised ELSE None,
                                    backup_path)
            /\ UNCHANGED <<sessions, now, messages_since_compaction,
                           last_compaction_time, appends_since_event, config,
                           session_rows, cache>>

\* Two created sessions in one store, an engine for each.
StoreInit ==
    /\ sessions = {"A", "B"}
    /\ messages = <<>>
    /\ file_references = {}
    /\ compaction_history = <<>>
    /\ next_message_id = 1
    /\ next_file_ref_id = 1
    /\ embeddings = {}
    /\ next_embedding_id = 1
    /\ schema_version = {SCHEMA_VERSION}
    /\ tables = V1Tables \cup V2Tables
    /\ backup = NoBackup
    /\ cache = NoCache
    /\ now = 0
    /\ session_rows = [s \in {"A", "B"} |-> NewSessionRow(s)]
    /\ messages_since_compaction = [s \in {"A", "B"} |-> 0]
    /\ last_compaction_time = [s \in {"A", "B"} |-> None]
    /\ result = Result("init", None, None, None)
    /\ appends_since_event = 0
    /\ config = DefaultConfig

StoreInputs == {<<"user", AppleBanana, 15, <<>> >>, <<"user", PythonClass, 1, <<>> >>}

StoreNext ==
    \/ \E s \in {"A", "B"}, input \in StoreInputs :
          next_message_id <= MaxStoreMessages /\ DoSaveMessage(s, input)
    \/ \E m \in Range(messages) : DoDeleteMessages({m.id})
    \/ \E s \in {"A", "B"} : DoDeleteSession(s)
    \/ \E days \in 0..1 : DoPurgeSessions(days)
    \/ \E level \in 1..3 : DoForceCompact("A", level)
    \/ Tick

StoreSpec == StoreInit /\ [][StoreNext]_vars

\* The dictionaries callers pass to update_session: every set of keys among
\* three whitelisted columns, two columns outside the whitelist and a key that
\* is no column at all, with one of two values (or the current time).
UpdateKeys ==
    {"context", "last_used", "max_context_tokens", "model_name", "created_at",
     "context = 0 --"}

UpdateInputs ==
    {[k \in keys |-> v] : keys \in SUBSET UpdateKeys, v \in {1, 2}}

SessionNext ==
    \/ \E s \in {"A", "B"}, updates \in UpdateInputs : DoUpdateSession(s, updates)
    \/ \E s \in {"A", "B"} : DoCreateSession(s)
    \/ \E s \in {"A", "B"} : DoDeleteSession(s)
    \/ Tick

SessionSpec == StoreInit /\ [][SessionNext]_vars

\* An engine with vector scoring disabled, with no embedding model available,
\* or with an embedder whose embed calls fail, on a session populated through
\* the store and compacted at Level 2.
VectorInit ==
    /\ EmptyStore
    /\ \E v \in {"off", "unavailable", "fails"} :
          config = [DefaultConfig EXCEPT !.vector_scoring = v]

VectorSpec == VectorInit /\ [][PruneNext]_vars

\* A session populated through the store and compacted on demand at Level 2 or
\* 3, the compaction running to its end or being interrupted.
CrashNext ==
    \/ \E input \in Inputs : DoSaveMessage("A", input)
    \/ \E level \in 2..3 : DoForceCompact("A", level)
    \/ \E level \in 2..3, ops \in 1..2 :
          /\ next_message_id <= MaxMessages
          /\ DoInterruptedCompact("A", level, ops)

CrashSpec == Init /\ [][CrashNext]_vars

\* A session appended to by engines constructed one after the other on the
\* same store.
RestartNext ==
    \/ \E input \in Inputs :
          /\ next_message_id <= MaxRestartAppends
          /\ CallAddMessage("A", input)
    \/ NewEngine("A")
    \/ Tick

RestartSpec == Init /\ [][RestartNext]_vars

\* The engine used as in Spec, with force_compact called again after a
\* compaction event, at any time since it and with any number of appends.
ForceNext ==
    \/ \E input \in Inputs : DoAddMessage("A", input)
    \/ \E level \in 1..3 :
          /\ Len(compaction_history) < MaxForceEvents
          /\ CallForceCompact("A", level)
    \/ Tick

ForceSpec == Init /\ [][ForceNext]_vars

\* Appends of one token, far below the Level 1 threshold, without a file or
\* with a reference to one: in full, in full and small, or already a summary.
SoftInputs ==
    {<<"user", PythonClass, 1, <<>> >>,
     <<"user", PythonClass, 1, << <<"/a.py", "full", 1000>> >> >>,
     <<"user", PythonClass, 1, << <<"/a.py", "full", 20>> >> >>,
     <<"user", PythonClass, 1, << <<"/a.py", "summary", 50>> >> >>}

\* File references tracked by add_message and recompressed on demand by
\* Level 1 and Level 3.
SoftNext ==
    \/ \E input \in SoftInputs :
          /\ next_message_id <= MaxSoftMessages
          /\ CallAddMessage("A", input)
    \/ \E level \in {1, 3} :
          /\ Len(compaction_history) < MaxSoftEvents
          /\ CallForceCompact("A", level)

SoftSpec == Init /\ [][SoftNext]_vars

\* ------------------------------------------------ two engines on one store

\* What the engines of the two sessions are given to append.
IsolationInputs ==
    {<<"assistant", PythonFunction, 50, <<>> >>,
     <<"user", PythonClass, 1, << <<"/a.py", "full", 1000>> >> >>}

\* The last call, with the session of the engine that made it.
SessionResult(op, session_id, level, ret, auto) ==
    [op |-> op, level |-> level, ret |-> ret, auto |-> auto, session |-> session_id]

\* add_message of the engine constructed for session_id.
SessionAddMessage(session_id, input) ==
    \E r \in {AddMessage(Engine(session_id), session_id, config.max_tokens,
                         input[1], input[2], input[3], input[4])} :
        Commit(session_id, r.e,
               SessionResult("add_message", session_id, None, r.ret, r.auto), 1)

\* force_compact of the engine constructed for session_id.
SessionForceCompact(session_id, level) ==
    \E r \in {ForceCompact(Engine(session_id), session_id, level)} :
        Commit(session_id, r.e,
               SessionResult("force_compact", session_id, level, r.ret, None), 0)

IsolationNext ==
    \/ \E session_id \in {"A", "B"}, input \in IsolationInputs :
          /\ next_message_id <= MaxIsolationMessages
          /\ SessionAddMessage(session_id, input)
    \/ \E session_id \in {"A", "B"}, level \in 1..3 :
          /\ Len(compaction_history) < MaxIsolationEvents
          /\ SessionForceCompact(session_id, level)

IsolationSpec == StoreInit /\ [][IsolationNext]_vars

\* The texts embedded: empty, whitespace only, and three others.
Texts ==
    {<< >>, <<" ", " ">>, <<"t", "e", "s", "t">>, <<" ", "a">>, <<"b">>}

\* An embedder with or without a fallback model, embedding texts while the
\* endpoint answers each request with a vector, an empty vector or not at all.
EmbedNext ==
    \E fallback_model \in {"", "llama3"}, text \in Texts, use_cache \in BOOLEAN,
       primary \in {"fail", "vector", "empty"}, fallback \in {"fail", "vector", "empty"} :
        DoEmbed(fallback_model, text, use_cache, primary, fallback)

EmbedSpec == Init /\ [][EmbedNext]_vars

\* Messages saved to a session, references to two files in two modes tracked
\* on the newest message, and the stale-file query with and without a filter.
StaleNext ==
    \/ /\ next_message_id <= MaxStaleMessages
       /\ CallSaveMessage("A", <<"user", PythonClass, 50, <<>> >>)
    \/ \E file_path \in {"/a.py", "/b.py"}, mode \in {"full", "summary"} :
          /\ next_file_ref_id <= MaxStaleRefs
          /\ CallTrackFileReference(next_message_id - 1, <<file_path, mode, 1000>>)
    \/ \E stale_threshold \in 1..MaxStaleThreshold, mode_filter \in {"", "full"} :
          CallGetStaleFiles("A", stale_threshold, mode_filter)

StaleSpec == Init /\ [][StaleNext]_vars

\* Every table of the store written through the store's API, by callers that
\* may name a session or a message that is gone.
\* Two sessions created at time 0 and not used since, one Tick ago; session "B"
\* owns a message with a file reference and an embedding, and an event.
IntegrityInit ==
    /\ sessions = {"A", "B"}
    /\ now = TickStep
    /\ session_rows = [s \in {"A", "B"} |->
                          [NewSessionRow(s) EXCEPT !.created_at = 0, !.last_used = 0]]
    /\ \E db \in {SaveEmbedding(
                     TrackFileReference(
                        SaveMessage([messages |-> <<>>, file_references |-> {},
                                     compaction_history |-> <<>>,
                                     next_message_id |-> 1, next_file_ref_id |-> 1,
                                     embeddings |-> {}, next_embedding_id |-> 1],
                                    "B", "user", PythonClass, 50, FALSE),
                        1, "/b.py", "full", 1000),
                     1, "nomic-embed-text")} :
          /\ messages = db.messages
          /\ file_references = db.file_references
          /\ embeddings = db.embeddings
          /\ next_message_id = db.next_message_id
          /\ next_file_ref_id = db.next_file_ref_id
          /\ next_embedding_id = db.next_embedding_id
    /\ compaction_history =
          <<[session_id |-> "B", timestamp |-> 0, level |-> 1, tokens_before |-> 10,
             tokens_after |-> 5, tokens_freed |-> 5, strategy |-> "file_compress",
             details |-> Details(None, None, None, None, None, None)]>>
    /\ schema_version = {SCHEMA_VERSION}
    /\ tables = V1Tables \cup V2Tables
    /\ backup = NoBackup
    /\ cache = NoCache
    /\ messages_since_compaction = [s \in {"A", "B"} |-> 0]
    /\ last_compaction_time = [s \in {"A", "B"} |-> None]
    /\ result = Result("init", None, None, None)
    /\ appends_since_event = 0
    /\ config = DefaultConfig

IntegrityNext ==
    \/ \E s \in {"A", "B"} :
          /\ next_message_id <= MaxIntegrityMessages
          /\ s = "B" => next_message_id <= MaxOtherMessages
          /\ CallSaveMessage(s, <<"user", PythonClass, 50, <<>> >>)
    \/ \E id \in {next_message_id - 1} :
          /\ next_file_ref_id <= MaxOwnedRows
          /\ CallTrackFileReference(id, <<"/a.py", "full", 1000>>)
    \/ \E id \in {next_message_id - 1} :
          /\ next_embedding_id <= MaxOwnedRows
          /\ CallSaveEmbedding(id, "nomic-embed-text")
    \/ \E s \in {"A", "B"} :
          /\ Len(compaction_history) < MaxOwnedRows
          /\ CallRecordCompaction(s, 1, 10, 5, "file_compress")
    \/ \E m \in Range(messages) : DoDeleteMessages({m.id})
    \/ \E s \in {"A", "B"} : DoDeleteSession(s)
    \/ \E s \in {"A", "B"} : DoCreateSession(s)
    \/ DoPurgeSessions(0)
    \/ Len(compaction_history) < MaxOwnedRows /\ CallForceCompact("A", 3)

IntegritySpec == IntegrityInit /\ [][IntegrityNext]_vars

\* The legacy histories of a session: none, a bare list of one or two messages
\* (as the migration test writes it), or the two messages in the envelope
\* SessionManager writes.
Histories ==
    LET hello == [role |-> "user", content |-> Hello]
        hi_there == [role |-> "assistant", content |-> HiThere]
    IN {History("null", <<>>),
        History("list", <<hello>>),
        History("list", <<hello, hi_there>>),
        History("envelope", <<hello, hi_there>>)}

\* A V1 database file: two sessions with their legacy histories, no message and
\* no version row.
MigrationInit ==
    /\ sessions = {"A", "B"}
    /\ messages = <<>>
    /\ file_references = {}
    /\ compaction_history = <<>>
    /\ next_message_id = 1
    /\ next_file_ref_id = 1
    /\ embeddings = {}
    /\ next_embedding_id = 1
    /\ schema_version = {}
    /\ tables = V1Tables
    /\ backup = NoBackup
    /\ cache = NoCache
    /\ now = 0
    /\ \E a \in Histories, b \in Histories :
          session_rows = [s \in {"A", "B"} |->
                            [NewSessionRow(s) EXCEPT
                                !.history_json = IF s = "A" THEN a ELSE b]]
    /\ messages_since_compaction = [s \in {"A", "B"} |-> 0]
    /\ last_compaction_time = [s \in {"A", "B"} |-> None]
    /\ result = Result("init", None, None, None)
    /\ appends_since_event = 0
    /\ config = DefaultConfig

\* The database is opened again and again, each open failing at some step or
\* at none.
MigrationNext ==
    \E backup_ok \in BOOLEAN, fail \in {"none", "tables", "insert", "commit", "version"} :
        /\ Len(messages) <= MaxMigratedMessages
        /\ DoOpen(backup_ok, fail)

MigrationSpec == MigrationInit /\ [][MigrationNext]_vars

\* An engine constructed without an llm_summarizer, or with one that returns a
\* summary, one that returns the empty string, one that raises.
SummarizerInit ==
    /\ EmptyStore
    /\ \E s \in {"none", "text", "empty", "raises"} :
          config = [DefaultConfig EXCEPT !.llm_summarizer = s]

SummarizerNext ==
    \/ \E input \in Inputs : DoAddMessage("A", input)
    \/ DoForceCompact("A", 3)

SummarizerSpec == SummarizerInit /\ [][SummarizerNext]_vars

\* Scenario "cooldown suppresses thrash": max_tokens = 1000, the engine
\* configured with MIN_MESSAGES_BETWEEN_COMPACTION = 3, ten appends of 80 tokens
\* each without file references, at any pace.
S5Inputs ==
    {<<"user", AppleBanana, 80, <<>> >>, <<"assistant", PythonFunction, 80, <<>> >>}

S5Init ==
    /\ EmptyStore
    /\ config = [DefaultConfig EXCEPT !.max_tokens = 1000,
                                      !.MIN_MESSAGES_BETWEEN_COMPACTION = 3]

S5Append(input) ==
    /\ next_message_id <= 10
    /\ CallAddMessage("A", input)

S5Next ==
    \/ \E input \in S5Inputs : S5Append(input)
    \/ Tick

S5Spec == S5Init /\ [][S5Next]_vars

\* ------------------------------------------------------------------ observers

\* The step is a call of add_message (it alone takes a message id and reports
\* add_message; a forced Level 3 takes an id for its summary).
IsAddStep == result'.op = "add_message" /\ next_message_id' > next_message_id

Tokens == GetMessageTokens(Db, "A")

LastEvent == compaction_history[Len(compaction_history)]

LastEventTime ==
    IF compaction_history = <<>> THEN None ELSE LastEvent.timestamp

\* ------------------------------------------------------------------ claims

\* C1: for every token total c the session reaches and every positive max_tokens
\* m, the level computed from u = c / m is 0 when u < 0.50, 1 when
\* 0.50 <= u < 0.65, 2 when 0.65 <= u < 0.80 and 3 when u >= 0.80; a usage
\* exactly on a threshold belongs to the higher level.
C1_ThresholdLadder ==
    \A m \in 1..MaxTokens :
        LET c == Tokens
            level == DetermineLevel(c, m)
        IN /\ (2 * c < m) => level = 0
           /\ (2 * c >= m /\ 20 * c < 13 * m) => level = 1
           /\ (20 * c >= 13 * m /\ 5 * c < 4 * m) => level = 2
           /\ (5 * c >= 4 * m) => level = 3

\* An append whose _auto_compact found the usage exactly on the hard threshold
\* (65 of 100) and ran Level 2.
C1_Witness ==
    /\ result.op = "add_message"
    /\ result.auto = 2
    /\ 20 * Tokens = 13 * MaxTokens

\* The cooldown as the claim states it, from what an observer saw: fewer than 2
\* appends since the last recorded event, or less than 30 s since it.
GateClosed(appended) ==
    \/ appended < 2
    \/ (LastEventTime # None /\ now - LastEventTime < 30)

\* C2: between two add_message/_auto_compact calls that each record a compaction
\* event (indeed since any recorded event) at least 2 messages were appended and
\* at least 30 s elapsed; while either gate is closed _auto_compact returns None
\* and changes nothing, and an append whose gate is closed only adds its message
\* and file references.
C2_Cooldown ==
    [][/\ ( /\ result'.op \in {"add_message", "auto_compact"}
            /\ Len(compaction_history') > Len(compaction_history) )
          => ~GateClosed(appends_since_event + (IF IsAddStep THEN 1 ELSE 0))
       /\ GateClosed(appends_since_event)
          => AutoCompact(Engine("A"), "A", MaxTokens) = [e |-> Engine("A"), ret |-> None]
       /\ (IsAddStep /\ GateClosed(appends_since_event + 1))
          => /\ result'.auto = None
             /\ compaction_history' = compaction_history
             /\ SubSeq(messages', 1, Len(messages)) = messages
             /\ Len(messages') = Len(messages) + 1
             /\ file_references \subseteq file_references'
      ]_vars

\* Two recorded events at least 30 s apart, the second recorded by the
\* _auto_compact of an append.
C2_Witness ==
    /\ Len(compaction_history) >= 2
    /\ result.op = "add_message"
    /\ result.auto >= 1
    /\ LastEvent.timestamp - compaction_history[Len(compaction_history) - 1].timestamp >= 30
    /\ appends_since_event = 0

\* C3: when every appended message has fewer tokens than max_tokens, the session's
\* message tokens are at most max_tokens after each append has returned.
C3_BudgetCeiling ==
    result.op = "add_message" => Tokens <= MaxTokens

\* The messages as they were when the compaction of this step began: with the
\* appended message when the step is an append.
AppendedMessages ==
    {m \in Range(messages') : m.id = next_message_id /\ ~m.is_summary}

PreCompaction ==
    IF IsAddStep /\ AppendedMessages # {}
        THEN Append(messages, CHOOSE m \in AppendedMessages : TRUE)
        ELSE messages

\* C4: after any compaction, automatic or forced, at any level, the 4 messages
\* that were the newest before it (all of them when there were at most 4) still
\* exist with the same role, content, tokens, timestamp and is_summary.
C4_ProtectedTail ==
    [][/\ IsAddStep => AppendedMessages # {}
       /\ LET pre == PreCompaction
          IN \A i \in 1..Len(pre) :
                i > Len(pre) - 4 => pre[i] \in Range(messages')
      ]_vars

\* The last compaction was a Level 2 one that deleted a message and left more
\* than the protected 4.
C4_Witness ==
    /\ compaction_history # <<>>
    /\ LastEvent.level = 2
    /\ LastEvent.details.messages_deleted >= 1
    /\ Len(messages) >= 5

\* C5: every recorded compaction event has tokens_after <= tokens_before, that is
\* tokens_freed >= 0, at every level.
C5_TokensFreedNonNegative ==
    \A i \in 1..Len(compaction_history) :
        /\ compaction_history[i].tokens_after <= compaction_history[i].tokens_before
        /\ compaction_history[i].tokens_freed >= 0

\* C6: one append (N = 1 < MIN_MESSAGES_BETWEEN_COMPACTION) produces at most one
\* compaction event, from any reachable engine state.
C6_AppendAtMostOneEvent ==
    [][IsAddStep => Len(compaction_history') <= Len(compaction_history) + 1]_vars

\* C7: a single _auto_compact or force_compact call records at most one
\* compaction event, whichever level it runs.
C7_CallAtMostOneEvent ==
    [][result'.op \in {"auto_compact", "force_compact"}
          => Len(compaction_history') <= Len(compaction_history) + 1]_vars

\* The file reference of `refs` with the id of `r`.
SameRef(refs, r) == CHOOSE q \in refs : q.id = r.id

\* Sum over the references `changed` of (tokens before - tokens in `refs`).
RECURSIVE TokensSaved(_, _)
TokensSaved(changed, refs) ==
    IF changed = {} THEN 0
    ELSE LET r == CHOOSE x \in changed : TRUE
         IN (r.tokens - SameRef(refs, r).tokens) + TokensSaved(changed \ {r}, refs)

\* The step ran Level 1 alone (forced, or chosen by _auto_compact) and recorded
\* its event.
IsLevel1EventStep ==
    /\ \/ result'.op = "force_compact" /\ result'.level = 1
       \/ result'.op \in {"add_message", "auto_compact"} /\ result'.auto = 1
    /\ Len(compaction_history') = Len(compaction_history) + 1

\* C8: when Level 1 compresses file references, each compressed reference gets
\* mode summary and tokens max(50, tokens / 10 rounded down), the file_compress
\* event it records has tokens_freed equal to the sum over the compressed
\* references of (old tokens - new tokens), and the session's accounted token
\* count drops by the same amount.
C8_SoftCompactFreed ==
    [][IsLevel1EventStep =>
        LET event == compaction_history'[Len(compaction_history')]
            changed == {r \in file_references : r \notin file_references'}
            saved == TokensSaved(changed, file_references')
        IN /\ event.strategy = "file_compress"
           /\ \A r \in changed :
                /\ \E q \in file_references' : q.id = r.id
                /\ SameRef(file_references', r).mode = "summary"
                /\ SameRef(file_references', r).tokens
                      = (IF r.tokens \div 10 > 50 THEN r.tokens \div 10 ELSE 50)
           /\ event.tokens_freed = saved
           /\ event.tokens_before - event.tokens_after = saved
      ]_vars

\* C9: Level 1 is idempotent: run twice back-to-back with no append in between,
\* the second run changes no file reference and frees 0 tokens.
C9_SoftCompactIdempotent ==
    LET first == SoftCompact(Engine("A"), "A")
        second == SoftCompact(first.e, "A")
    IN /\ second.e.db.file_references = first.e.db.file_references
       /\ second.ret = 0

\* C10: Level 1 changes only file references that were in full mode and whose
\* owning message is outside the 3 newest messages of the session.
C10_SoftCompactFrame ==
    LET after == SoftCompact(Engine("A"), "A").e.db.file_references
        newest == RecentIds(Db, "A", 3)
    IN \A r \in file_references :
          (r.mode # "full" \/ r.message_id \in newest) => r \in after

\* C11: when the session has at most MIN_MESSAGES_TO_KEEP (4) messages, Level 2
\* is a no-op: no message deleted, no file reference changed, no compaction
\* event recorded, the cooldown state unchanged.
C11_HardCompactNoOp ==
    Len(LoadMessages(Db, "A")) <= 4
        => HardCompact(Engine("A"), "A").e = Engine("A")

\* What Level 2 does to the current session: the messages before, the candidates
\* (older than the 4 protected ones) and the messages after.
Candidates == OlderMessages(LoadMessages(Db, "A"))

AfterHardCompact == LoadMessages(HardCompact(Engine("A"), "A").e.db, "A")

\* C12: Level 2 on a session with c >= 1 candidates keeps exactly
\* max(1, ceil(0.50 * c)) of them and deletes the others, so exactly
\* 4 + max(1, ceil(c / 2)) messages remain.
C12_HardCompactKeepsCeilHalf ==
    LET n == Len(LoadMessages(Db, "A"))
        c == n - 4
        kept == IF (c + 1) \div 2 > 1 THEN (c + 1) \div 2 ELSE 1
    IN (n > 4 /\ c >= 1)
          => /\ Len(AfterHardCompact) = 4 + kept
             /\ Cardinality({i \in 1..c : Candidates[i] \in Range(AfterHardCompact)}) = kept

\* C13: Level 2 tie-break: of two candidates with equal relevance scores of which
\* exactly one is kept, the kept one is the newer.
C13_HardCompactTieKeepsNewer ==
    LET msgs == LoadMessages(Db, "A")
        context == UNION {m.content.words : m \in Range(RecentMessages(msgs))}
        score(i) == CalculateRelevance(Candidates[i], context)
    IN Len(msgs) > 4 =>
          \A i, j \in 1..Len(Candidates) :
              ( /\ i < j
                /\ ~ScoreGreater(score(i), score(j))
                /\ ~ScoreGreater(score(j), score(i))
                /\ (Candidates[i] \in Range(AfterHardCompact))
                      # (Candidates[j] \in Range(AfterHardCompact)) )
              => Candidates[j] \in Range(AfterHardCompact)

\* The step is a call that ran Level 3: force_compact(3), or an add_message or
\* _auto_compact whose level was 3 (a Tick leaves `result` and moves `now`).
IsLevel3Step ==
    /\ now' = now
    /\ \/ result'.op = "force_compact" /\ result'.level = 3
       \/ result'.op \in {"add_message", "auto_compact"} /\ result'.auto = 3

\* C14: Level 3 on a session with n > 4 messages deletes the n - 4 older ones,
\* leaves the 4 newest unchanged and inserts exactly one message with role
\* system, is_summary = true and a content that starts with
\* "[Previous conversation summary]", so that exactly 5 messages remain; it
\* records exactly one event, llm_summary with messages_summarized = n - 4.
C14_EmergencyCompactShape ==
    [][(IsLevel3Step /\ Len(PreCompaction) > 4) =>
        LET pre == PreCompaction
            n == Len(pre)
            new == {m \in Range(messages') : m \notin Range(pre)}
            event == compaction_history'[Len(compaction_history')]
        IN /\ \A i \in 1..n : (i > n - 4) <=> (pre[i] \in Range(messages'))
           /\ Len(messages') = 5
           /\ Cardinality(new) = 1
           /\ \A m \in new :
                 /\ m.role = "system"
                 /\ m.is_summary
                 /\ m.content.len >= 32
                 /\ {"previous", "conversation", "summary"} \subseteq m.content.words
           /\ Len(compaction_history') = Len(compaction_history) + 1
           /\ event.level = 3
           /\ event.strategy = "llm_summary"
           /\ event.details.messages_summarized = n - 4
      ]_vars

\* An append whose _auto_compact ran Level 3 on six messages: two were
\* summarized and five messages remain.
C14_Witness ==
    /\ result.op = "add_message"
    /\ result.auto = 3
    /\ compaction_history # <<>>
    /\ LastEvent.level = 3
    /\ LastEvent.details.messages_summarized = 2
    /\ Len(messages) = 5

\* C15: after a Level 3 compaction (more than 4 messages, so that it records its
\* event) no file reference of the session is in full mode: each reference that
\* was full and still exists has mode summary and tokens
\* max(50, tokens / 10 rounded down).
C15_EmergencyCompactRecompressesAll ==
    [][(IsLevel3Step /\ Len(PreCompaction) > 4) =>
        /\ \A q \in file_references' : q.mode # "full"
        /\ \A r \in file_references :
              (r.mode = "full" /\ \E q \in file_references' : q.id = r.id)
                 => /\ SameRef(file_references', r).mode = "summary"
                    /\ SameRef(file_references', r).tokens
                          = (IF r.tokens \div 10 > 50 THEN r.tokens \div 10 ELSE 50)
      ]_vars

\* C16: when no summarizer is configured, or the configured one signals failure
\* by returning the empty string, the summary message Level 3 inserts carries
\* the structural fallback built from the summarized messages (counts of user
\* and assistant messages, the first 200 characters of the first one), never an
\* empty summary.
C16_FallbackSummary ==
    [][( /\ IsLevel3Step
         /\ Len(PreCompaction) > 4
         /\ config.llm_summarizer \in {"none", "empty"} ) =>
        LET pre == PreCompaction
            summarized == SubSeq(pre, 1, Len(pre) - 4)
            new == {m \in Range(messages') : m \notin Range(pre)}
        IN /\ new # {}
           /\ \A m \in new :
                 /\ m.content = SummaryContent(CreateFallbackSummary(summarized))
                 /\ m.content.len > 32
                 /\ m.tokens > 0
      ]_vars

\* C17: an append never fails because an external dependency fails: with the
\* embedder unavailable, and whatever the summarizer does during the compaction
\* the append triggers, the append returns the id of the message it persisted
\* and no exception reaches the caller.
C17_AppendNeverFails ==
    [][(now' = now /\ result'.op = "add_message"
          /\ next_message_id' > next_message_id) =>
        /\ result'.auto # Raised
        /\ result'.ret = next_message_id
        /\ \E i \in 1..Len(messages') : messages'[i].id = result'.ret
      ]_vars

\* C18: with max_tokens = 1000 and MIN_MESSAGES_BETWEEN_COMPACTION = 3, appending
\* 10 messages of 80 tokens each, without file references, to an empty session
\* through one engine records exactly one message_prune event over the whole
\* sequence and no other compaction event.
C18_CooldownSuppressesThrash ==
    /\ \A i \in 1..Len(compaction_history) :
          compaction_history[i].strategy = "message_prune"
    /\ Len(compaction_history) <= 1
    /\ next_message_id > 10 => Len(compaction_history) = 1

\* The ten appends are done, 30 s or more have passed, and the one Level 2 event
\* was recorded at 720 of 1000 tokens.
C18_Witness ==
    /\ next_message_id = 11
    /\ result.op = "add_message"
    /\ now >= 30
    /\ Len(compaction_history) = 1
    /\ compaction_history[1].level = 2
    /\ compaction_history[1].tokens_before = 720
    /\ Tokens = 560

\* Sum of the tokens of a set of message rows.
RECURSIVE TokensOf(_)
TokensOf(rows) ==
    IF rows = {} THEN 0
    ELSE LET m == CHOOSE x \in rows : TRUE IN m.tokens + TokensOf(rows \ {m})

\* C19: for every session, after every sequence of store and engine operations
\* (save, delete, compaction at any level, session delete, purge),
\* get_message_tokens(session) is the sum of the tokens of the messages that
\* exist for the session, and 0 when there are none (a deleted or purged
\* session has none).
C19_MessageTokensIsLiveSum ==
    \A s \in {"A", "B"} :
        /\ GetMessageTokens(Db, s)
              = TokensOf({m \in Range(messages) : m.session_id = s})
        /\ (\A m \in Range(messages) : m.session_id # s)
              => GetMessageTokens(Db, s) = 0
        /\ s \notin sessions => GetMessageTokens(Db, s) = 0

\* A session that had messages was deleted or purged while the other keeps
\* messages of its own.
C19_Witness ==
    /\ result.op \in {"delete_session", "purge_sessions"}
    /\ result.ret = 1
    /\ \E s \in sessions : GetMessageTokens(Db, s) > 0
    /\ Len(messages) < next_message_id - 1

\* C20: update_session with any key outside the whitelist {context, last_used,
\* history_json, metadata_json, max_context_tokens, system_prompt} fails with an
\* invalid-argument error and leaves the session row unchanged, also when the
\* same call carries whitelisted keys; a call with only whitelisted keys updates
\* exactly those fields of that session.
C20_UpdateSessionWhitelist ==
    \A s \in {"A", "B"}, updates \in UpdateInputs :
        LET whitelist == {"context", "last_used", "history_json", "metadata_json",
                          "max_context_tokens", "system_prompt"}
            after == UpdateSession(session_rows, s, updates)
        IN IF \E key \in DOMAIN updates : key \notin whitelist
             THEN UpdateRejected(updates) /\ after = session_rows
             ELSE /\ ~UpdateRejected(updates)
                  /\ DOMAIN after = DOMAIN session_rows
                  /\ \A x \in DOMAIN after : \A k \in DOMAIN after[x] :
                        after[x][k] = IF x = s /\ k \in DOMAIN updates
                                         THEN updates[k] ELSE session_rows[x][k]

\* A rejected update_session on a session whose row an accepted one had
\* changed before.
C20_Witness ==
    /\ result.op = "update_session"
    /\ result.ret = Raised
    /\ "A" \in sessions
    /\ session_rows["A"].context = 1
    /\ session_rows["A"].max_context_tokens = 2
    /\ session_rows["A"].model_name = None

\* The ids of the messages of session `s` in the store `db`.
MessageIdsOf(db, s) == {m.id : m \in {x \in Range(db.messages) : x.session_id = s}}

\* C21: delete_session(id) removes the session together with all of its
\* messages, their file references and embeddings, and its compaction events,
\* and removes no row owned by another session; deleting a message removes its
\* file references and embeddings (and no other row).
C21_DeleteCascades ==
    [][/\ (result'.op = "delete_session" /\ sessions' # sessions) =>
            \A s \in sessions \ sessions' :
               LET gone == MessageIdsOf(Db, s)
               IN /\ messages' = SelectSeq(messages, LAMBDA m : m.session_id # s)
                  /\ file_references' = {r \in file_references : r.message_id \notin gone}
                  /\ embeddings' = {x \in embeddings : x.message_id \notin gone}
                  /\ compaction_history'
                        = SelectSeq(compaction_history, LAMBDA e : e.session_id # s)
                  /\ \A r \in file_references' \cup embeddings' :
                        \E m \in Range(messages') : m.id = r.message_id /\ m.session_id # s
       /\ (result'.op = "delete_messages" /\ messages' # messages) =>
            LET gone == MessageIds(Db) \ {m.id : m \in Range(messages')}
            IN /\ messages' = SelectSeq(messages, LAMBDA m : m.id \notin gone)
               /\ file_references' = {r \in file_references : r.message_id \notin gone}
               /\ embeddings' = {x \in embeddings : x.message_id \notin gone}
               /\ compaction_history' = compaction_history
               /\ sessions' = sessions
      ]_vars

\* Session "A" was deleted after a second message, file reference and embedding
\* had been inserted; they went with it and session "B" keeps its message, its
\* file reference, its embedding and its event.
C21_Witness ==
    /\ result.op = "delete_session"
    /\ result.ret = 1
    /\ sessions = {"B"}
    /\ next_message_id = 3
    /\ Len(messages) = 1
    /\ next_file_ref_id = 3
    /\ Cardinality(file_references) = 1
    /\ next_embedding_id = 3
    /\ Cardinality(embeddings) = 1
    /\ Len(compaction_history) = 1

\* Every row that names an owner names an existing one.
ReferentialIntegrity ==
    /\ \A r \in file_references : \E m \in Range(messages) : m.id = r.message_id
    /\ \A x \in embeddings : \E m \in Range(messages) : m.id = x.message_id
    /\ \A m \in Range(messages) : m.session_id \in sessions
    /\ \A i \in 1..Len(compaction_history) : compaction_history[i].session_id \in sessions

\* C22: in every reachable state every file reference and every embedding
\* belongs to an existing message, and every message and every compaction event
\* belongs to an existing session, after any sequence of creates, appends,
\* compactions, message deletions, session deletions and purges; an insert that
\* fails (its owner is missing) changes nothing.
C22_ReferentialIntegrity ==
    [][/\ ReferentialIntegrity
       /\ ReferentialIntegrity'
       /\ ( /\ result'.ret = Raised
            /\ result'.op \in {"save_message", "track_file_reference",
                               "save_embedding", "record_compaction"} )
          => /\ messages' = messages
             /\ file_references' = file_references
             /\ embeddings' = embeddings
             /\ compaction_history' = compaction_history
             /\ sessions' = sessions
             /\ next_message_id' = next_message_id
             /\ next_file_ref_id' = next_file_ref_id
             /\ next_embedding_id' = next_embedding_id
      ]_vars

\* An insert for a missing owner was refused: an embedding for a message that a
\* session delete had removed, and no embedding was added.
C22_Witness ==
    /\ result.op = "save_embedding"
    /\ result.ret = Raised
    /\ next_message_id = 3
    /\ \A m \in Range(messages) : m.id # 2
    /\ "A" \notin sessions
    /\ next_embedding_id = 2
    /\ Cardinality(embeddings) = 1

\* The step is an open that found a V1 database (no version row) and ran the
\* migration.
IsMigrationStep == result'.op = "open" /\ schema_version = {} /\ now' = now

\* C23: schema migration is atomic: if any step of the V1 to V2 migration fails
\* (table creation, insertion of a migrated message, writing the version row),
\* the database holds no migrated message row and no new version row, exactly
\* as before the open, and the caller receives an error that names the backup
\* path.
C23_MigrationAtomic ==
    [][(IsMigrationStep /\ result'.ret = Raised) =>
          /\ messages' = messages
          /\ next_message_id' = next_message_id
          /\ schema_version' = schema_version
          /\ result'.backup_path # "none"
      ]_vars

\* C24: opening a V1 database migrates each session's serialized history list
\* into the messages table: one message row per history element, with role and
\* content preserved and tokens = len(content)/4 rounded down, returned by
\* load_messages in the original history order; the legacy history blob is
\* left in place and the version row is set to 2.
C24_MigrationPreservesHistory ==
    [][(IsMigrationStep /\ messages = <<>> /\ result'.ret # Raised) =>
          /\ \A s \in sessions :
                LET items == session_rows[s].history_json.items
                    loaded == LoadMessages(Db', s)
                IN /\ Len(loaded) = Len(items)
                   /\ \A i \in 1..Len(items) :
                         /\ loaded[i].role = items[i].role
                         /\ loaded[i].content = items[i].content
                         /\ 4 * loaded[i].tokens <= items[i].content.len
                         /\ items[i].content.len < 4 * (loaded[i].tokens + 1)
          /\ session_rows' = session_rows
          /\ schema_version' = {2}
      ]_vars

\* C25: re-migration is idempotent: running the V1 to V2 migration again on a
\* database whose history was already migrated (on a plain reopen, or after a
\* failure that happened before the version row was written) adds no message
\* row, so no history element is ever present twice in the messages table.
C25_RemigrationIdempotent ==
    [][(result'.op = "open" /\ messages # <<>>) =>
          /\ messages' = messages
          /\ \A s \in sessions :
                Len(LoadMessages(Db', s)) <= Len(session_rows[s].history_json.items)
      ]_vars

\* Two scores are the same number.
ScoreEqual(a, b) == a[1] * b[2] = b[1] * a[2]

\* C26: when the embedder is enabled and available but the embedding of the
\* candidate message or of the context fails (embed returns none), the
\* relevance score returned for that candidate is the lexical (keyword Jaccard)
\* score with boosts, identical to the score obtained with vector scoring
\* disabled.
C26_EmbeddingFailureFallsBack ==
    config.vector_scoring = "fails" =>
        LET msgs == LoadMessages(Db, "A")
            context == UNION {m.content.words : m \in Range(RecentMessages(msgs))}
        IN Len(msgs) > 4 =>
              \A i \in 1..Len(Candidates) :
                  ScoreEqual(CalculateRelevance(Candidates[i], context),
                             CalculateKeywordRelevance(Candidates[i], context))

\* The references of the session's messages to `file_path`.
ReferencesTo(session_id, file_path) ==
    {r \in file_references :
        /\ r.file_path = file_path
        /\ r.message_id \in {m.id : m \in Range(LoadMessages(Db, session_id))}}

\* C27: get_stale_files(session, recent_N, mode_filter) returns for a file path
\* only that file's most recent reference in the session, and only when the
\* message owning that most recent reference is not among the recent_N newest
\* messages; a file whose most recent reference (in any mode) lies within the
\* recent_N newest messages is never returned, with or without a mode filter.
C27_StaleFilesMostRecentReference ==
    result.op = "get_stale_files" =>
        \A row \in result.ret :
            /\ \A r \in ReferencesTo("A", row.file_path) : r.message_id <= row.message_id
            /\ row.message_id \notin RecentIds(Db, "A", result.stale_threshold)

\* The same property for the calls without a mode filter.
StaleFilesUnfiltered ==
    result.op = "get_stale_files" /\ result.mode_filter = "" =>
        \A row \in result.ret :
            /\ \A r \in ReferencesTo("A", row.file_path) : r.message_id <= row.message_id
            /\ row.message_id \notin RecentIds(Db, "A", result.stale_threshold)

\* A step of force_compact (every other operation leaves another result or
\* moves the clock).
IsForceStep == result'.op = "force_compact" /\ now' = now

\* The step recorded events, the last of them of this level, now.
RecordedEvent(level) ==
    /\ Len(compaction_history') > Len(compaction_history)
    /\ LastEvent'.level = level
    /\ LastEvent'.timestamp = now

\* C28: force_compact(level) is exempt from the cooldown: it runs the strategy
\* of the requested level in every cooldown state (zero messages since the
\* last compaction, less than 30 s elapsed) and returns the session's
\* message-token total before the call minus the total after it.  Seen from
\* the store: Level 1 records its event when a full file is stale, Level 2 prunes
\* when there are two candidates or more, Level 3 leaves the summary and the
\* last EMERGENCY_KEEP messages, each with its event.
C28_ForceCompactExempt ==
    [][IsForceStep =>
          /\ result'.ret = Tokens - Tokens'
          /\ (/\ result'.level = 1
              /\ GetStaleFiles(Db, "A", STALE_FILE_THRESHOLD, "full") # {})
                => RecordedEvent(1)
          /\ (result'.level = 2 /\ Len(messages) >= MIN_MESSAGES_TO_KEEP + 2)
                => /\ RecordedEvent(2)
                   /\ Len(messages') < Len(messages)
          /\ (result'.level = 3 /\ Len(messages) > EMERGENCY_KEEP)
                => /\ RecordedEvent(3)
                   /\ Len(messages') = EMERGENCY_KEEP + 1]_vars

\* force_compact has just recorded an event although no message was appended
\* since the previous event, less than 30 s ago.
C28_Witness ==
    /\ result.op = "force_compact"
    /\ Len(compaction_history) = 2
    /\ compaction_history[1].level = 1
    /\ LastEvent.level = 3
    /\ LastEvent.timestamp - compaction_history[1].timestamp
          < MIN_TIME_BETWEEN_COMPACTION_SECONDS
    /\ messages_since_compaction["A"] = 0
    /\ appends_since_event = 0
    /\ result.ret > 0

\* C29: at engine construction only the time half of the cooldown is restored
\* from the session's most recent compaction event: a new engine starts with
\* zero messages since compaction, so it performs no automatic compaction
\* during its first MIN_MESSAGES_BETWEEN_COMPACTION - 1 appends, and none
\* before 30 s have passed since the timestamp of the stored last event.
C29_NewEngineRestoresTimeOnly ==
    [][IsAddStep =>
          /\ (result.op = "init" /\ MIN_MESSAGES_BETWEEN_COMPACTION - 1 >= 1)
                => /\ compaction_history' = compaction_history
                   /\ result'.auto = None
          /\ (/\ compaction_history # <<>>
              /\ now - LastEventTime < MIN_TIME_BETWEEN_COMPACTION_SECONDS)
                => /\ compaction_history' = compaction_history
                   /\ result'.auto = None]_vars

\* The second append of an engine constructed after an event, less than 30 s
\* after it: the counter of the new engine has reached the minimum (more
\* appends than that were made since the event) and no compaction ran.
C29_Witness ==
    /\ result.op = "add_message"
    /\ result.auto = None
    /\ compaction_history # <<>>
    /\ now - LastEventTime < MIN_TIME_BETWEEN_COMPACTION_SECONDS
    /\ messages_since_compaction["A"] = MIN_MESSAGES_BETWEEN_COMPACTION
    /\ appends_since_event > MIN_MESSAGES_BETWEEN_COMPACTION
    /\ Tokens >= MaxTokens \div 2

\* The step deleted messages of the store.
DeletedMessages == \E m \in Range(messages) : m \notin Range(messages')

\* C30: a compaction is atomic towards the store: if a Level 2 or Level 3
\* compaction is interrupted (cancellation, crash or store error) between any
\* two of its store operations, the store is either fully in its
\* pre-compaction state or fully in its post-compaction state; in no reachable
\* state are the older messages deleted while the summary message or the
\* compaction event is missing.
C30_CompactionAtomic ==
    [][(result'.op = "interrupted" /\ DeletedMessages) =>
          /\ RecordedEvent(result'.level)
          /\ result'.level = 3 =>
                \E m \in Range(messages') : m.is_summary /\ m.id >= next_message_id]_vars

\* The same for the compactions that ran to their end.
CompleteCompactionRecords ==
    [][(result'.op = "force_compact" /\ DeletedMessages) =>
          /\ RecordedEvent(result'.level)
          /\ result'.level = 3 =>
                \E m \in Range(messages') : m.is_summary /\ m.id >= next_message_id]_vars

\* The embed step just made, with use_cache left at its default.
IsEmbedStep == result'.op = "embed" /\ result'.use_cache

\* The protocol of C31 for one embed step.
EmbedProtocol ==
    LET r == result'
        miss == ~IsBlankText(r.text) /\ r.text \notin DOMAIN cache
        fallback_tried == Len(r.calls) = 2
    IN /\ IsBlankText(r.text) =>
             r.ret = NoEmbedding /\ r.calls = << >> /\ cache' = cache
       /\ (~IsBlankText(r.text) /\ r.text \in DOMAIN cache) =>
             r.ret = cache[r.text] /\ r.calls = << >> /\ cache' = cache
       /\ miss =>
             /\ Len(r.calls) >= 1 /\ r.calls[1] = "nomic-embed-text"
             /\ fallback_tried => r.primary = "fail" /\ r.calls[2] = r.fallback_model
             /\ (r.primary = "fail" /\ r.fallback_model # "") => fallback_tried
             /\ (r.primary = "fail" /\ (fallback_tried => r.fallback = "fail")) =>
                   r.ret = NoEmbedding /\ cache' = cache
             /\ r.ret.found =>
                   r.text \in DOMAIN cache' /\ cache'[r.text] = r.ret

\* C31: embed(text) follows the lookup protocol: empty or whitespace-only text
\* returns none without any endpoint call; a cache hit returns the cached
\* vector without any endpoint call; on a miss the primary model is tried first
\* and the fallback model only if the primary fails; if both fail the result is
\* none and nothing is added to the cache; a successful vector is cached so
\* that the next embed of the same text is a hit.
C31_EmbedLookupProtocol == [][IsEmbedStep => EmbedProtocol]_vars

\* The same while the endpoint never answers with an empty vector.
EmbedProtocolNonEmptyVectors ==
    [][(IsEmbedStep /\ result'.primary # "empty" /\ result'.fallback # "empty")
          => EmbedProtocol]_vars

\* C32: the backup is taken before the database is changed: when a V1
\* database is opened, the copy <path>.backup.<timestamp> is made before any V2
\* table is created and before any row is written, so the backup file holds
\* the unmodified V1 database.
C32_BackupBeforeChange ==
    [][(IsMigrationStep /\ result'.backup_path # "none") =>
          /\ backup'.tables = tables
          /\ backup'.messages = messages
          /\ backup'.schema_version = schema_version]_vars

\* The rows of the backup are those the database had before it was opened.
BackupHoldsRowsBefore ==
    [][(IsMigrationStep /\ result'.backup_path # "none") =>
          /\ backup'.messages = messages
          /\ backup'.schema_version = schema_version]_vars

\* A step of force_compact(2).
IsLevel2Step == IsForceStep /\ result'.level = 2

\* The position of message `m` among the session's messages, oldest first.
PositionOf(m) ==
    CHOOSE i \in 1..Len(messages) : messages[i] = m

\* The words of the 4 newest messages: the context candidates are scored against.
RecentContext ==
    UNION {messages[i].content.words :
              i \in {j \in 1..Len(messages) : j > Len(messages) - MIN_MESSAGES_TO_KEEP}}

\* C33: every message deleted by Level 2 is a candidate (not one of the 4
\* newest messages) whose relevance score is less than or equal to the score of
\* every candidate that Level 2 keeps, and when Level 2 deletes at least one
\* message it records a message_prune event whose messages_deleted equals the
\* number deleted and whose messages_kept equals the number of messages
\* remaining.
C33_Level2DeletesLeastRelevant ==
    [][IsLevel2Step =>
          LET deleted == {m \in Range(messages) : m \notin Range(messages')}
              kept == {m \in Range(messages) :
                          /\ m \in Range(messages')
                          /\ PositionOf(m) <= Len(messages) - MIN_MESSAGES_TO_KEEP}
          IN /\ \A d \in deleted :
                   /\ PositionOf(d) <= Len(messages) - MIN_MESSAGES_TO_KEEP
                   /\ \A k \in kept :
                         ~ScoreGreater(CalculateRelevance(d, RecentContext),
                                       CalculateRelevance(k, RecentContext))
             /\ Range(messages') \subseteq Range(messages)
             /\ deleted # {} =>
                   /\ RecordedEvent(2)
                   /\ LastEvent'.strategy = "message_prune"
                   /\ LastEvent'.details.messages_deleted = Cardinality(deleted)
                   /\ LastEvent'.details.messages_kept = Len(messages')]_vars

\* Level 2 has just deleted two candidates of a lower score than the one it
\* kept, which was not the oldest.
C33_Witness ==
    /\ result.op = "force_compact"
    /\ result.level = 2
    /\ compaction_history # <<>>
    /\ LastEvent.strategy = "message_prune"
    /\ LastEvent.details.messages_deleted = 2
    /\ LastEvent.details.messages_kept = Len(messages)
    /\ messages[1].id > 1

\* The summary messages of the session.
SummaryMessages == {m \in Range(messages) : m.is_summary}

\* C34: after any Level 3 compaction that summarizes messages, the session
\* contains exactly one message with is_summary = true, also when an earlier
\* Level 3 compaction already left a summary message in the session.
C34_OneSummaryMessage ==
    [][RecordedEvent(3) => Cardinality(SummaryMessages') = 1]_vars

\* The same for the first Level 3 compaction of a session.
FirstSummaryIsAlone ==
    [][(RecordedEvent(3) /\ SummaryMessages = {})
          => Cardinality(SummaryMessages') = 1]_vars

\* The last `n` messages of a list.
LastMessages(msgs, n) == SubSeq(msgs, Len(msgs) - n + 1, Len(msgs))

\* C35: the summary message takes the place of the messages it replaces: after
\* a Level 3 compaction, load_messages returns the summary message before the
\* EMERGENCY_KEEP retained messages, so the retained messages are still the
\* newest messages of the session for the next compaction.  Stated for
\* force_compact(3), whose retained messages are the last four before the call.
C35_SummaryBeforeRetained ==
    [][(IsForceStep /\ RecordedEvent(3)) =>
          /\ Len(LoadMessages(Db, "A")') = EMERGENCY_KEEP + 1
          /\ LoadMessages(Db, "A")'[1].is_summary
          /\ LastMessages(LoadMessages(Db, "A")', EMERGENCY_KEEP)
                = LastMessages(LoadMessages(Db, "A"), EMERGENCY_KEEP)]_vars

\* What the store does instead: the retained messages come first, the summary
\* is the newest message.
SummaryAfterRetained ==
    [][(IsForceStep /\ RecordedEvent(3)) =>
          /\ Len(LoadMessages(Db, "A")') = EMERGENCY_KEEP + 1
          /\ LoadMessages(Db, "A")'[EMERGENCY_KEEP + 1].is_summary
          /\ SubSeq(LoadMessages(Db, "A")', 1, EMERGENCY_KEEP)
                = LastMessages(LoadMessages(Db, "A"), EMERGENCY_KEEP)]_vars

\* C36: when the session has at most EMERGENCY_KEEP (4) messages, Level 3
\* stops after file recompression: it deletes no message, inserts no summary
\* message, records no compaction event and does not restart the cooldown.
\* Level 3 runs by force_compact(3), or inside add_message on the session with
\* the message just saved.
C36_Level3StopsAtEmergencyKeep ==
    [][/\ (IsForceStep /\ result'.level = 3 /\ Len(messages) <= EMERGENCY_KEEP) =>
             /\ messages' = messages
             /\ compaction_history' = compaction_history
             /\ messages_since_compaction' = messages_since_compaction
             /\ last_compaction_time' = last_compaction_time
             /\ result'.ret = 0
       /\ (IsAddStep /\ result'.auto = 3 /\ Len(messages) < EMERGENCY_KEEP) =>
             /\ SubSeq(messages', 1, Len(messages)) = messages
             /\ Len(messages') = Len(messages) + 1
             /\ ~messages'[Len(messages')].is_summary
             /\ compaction_history' = compaction_history
             /\ messages_since_compaction'["A"] = messages_since_compaction["A"] + 1
             /\ last_compaction_time' = last_compaction_time]_vars

\* force_compact(3) has just returned on a session of exactly four messages,
\* above the Level 3 threshold, with the cooldown counter at four.
C36_Witness ==
    /\ result.op = "force_compact"
    /\ result.level = 3
    /\ Len(messages) = EMERGENCY_KEEP
    /\ Tokens >= MaxTokens
    /\ compaction_history = <<>>
    /\ messages_since_compaction["A"] = EMERGENCY_KEEP

\* A step of force_compact(1).
IsLevel1Step == IsForceStep /\ result'.level = 1

\* No reference in full mode is owned by a message outside the
\* STALE_FILE_THRESHOLD newest messages.
NoStaleFullReference ==
    \A r \in file_references :
        (r.mode = "full" /\ r.message_id \in {m.id : m \in Range(messages)})
            => r.message_id \in RecentIds(Db, "A", STALE_FILE_THRESHOLD)

\* The step compressed a reference: it left full mode or its tokens went down.
CompressedAReference ==
    \E r \in file_references :
        \E q \in file_references' :
            q.id = r.id /\ (q.mode # r.mode \/ q.tokens < r.tokens)

\* Level 1 without a stale full reference changes nothing.
SoftCompactNothingStale ==
    [][(IsLevel1Step /\ NoStaleFullReference) =>
          /\ result'.ret = 0
          /\ file_references' = file_references
          /\ messages' = messages
          /\ compaction_history' = compaction_history
          /\ messages_since_compaction' = messages_since_compaction
          /\ last_compaction_time' = last_compaction_time]_vars

\* C37: when the session has no stale full-mode file reference, Level 1 frees 0
\* tokens, changes no file reference and no message, records no compaction
\* event and leaves the cooldown state (messages since compaction, last
\* compaction time) unchanged; Level 1 records an event exactly when it
\* compressed at least one reference.
C37_SoftCompactRecordsWhenCompressed ==
    [][IsLevel1Step =>
          /\ NoStaleFullReference =>
                /\ result'.ret = 0
                /\ file_references' = file_references
                /\ messages' = messages
                /\ compaction_history' = compaction_history
                /\ messages_since_compaction' = messages_since_compaction
                /\ last_compaction_time' = last_compaction_time
          /\ Len(compaction_history') > Len(compaction_history)
                <=> CompressedAReference]_vars

\* An _auto_compact call: the explicit one, or the one that ends add_message.
IsAutoStep == result'.op = "auto_compact" /\ now' = now

\* The messages of the session when _auto_compact starts: for add_message the
\* appended message (the newest, which every level keeps) is already saved.
MessagesAtStart ==
    IF IsAddStep
    THEN messages \o SelectSeq(messages', LAMBDA m : m.id = next_message_id)
    ELSE messages

\* C38: an _auto_compact invocation computes one level from the usage at its
\* start and applies only that level's strategy, without re-evaluating the level
\* afterwards: at level 0 nothing in the store changes, at level 1 no message is
\* deleted or inserted, at level 2 no summary message is inserted, and at level
\* 3 the messages older than the newest 4 are removed regardless of their
\* relevance.
C38_AutoCompactOneLevel ==
    [][(IsAutoStep \/ IsAddStep) =>
          /\ Len(MessagesAtStart) = Len(messages) + (IF IsAddStep THEN 1 ELSE 0)
          /\ result'.auto # None =>
                result'.auto = DetermineLevel(SumTokens(MessagesAtStart),
                                              config.max_tokens)
          /\ result'.auto \in {None, 0} =>
                /\ messages' = MessagesAtStart
                /\ compaction_history' = compaction_history
                /\ IsAutoStep => file_references' = file_references
          /\ result'.auto = 1 => messages' = MessagesAtStart
          /\ result'.auto = 2 =>
                /\ Range(messages') \subseteq Range(MessagesAtStart)
                /\ \A m \in Range(messages') \ Range(messages) : ~m.is_summary
          /\ (result'.auto = 3 /\ Len(MessagesAtStart) > EMERGENCY_KEEP) =>
                Range(messages') \cap Range(MessagesAtStart) =
                   Range(LastMessages(MessagesAtStart, EMERGENCY_KEEP))]_vars

\* An _auto_compact that found the usage at level 3 and replaced the messages
\* older than the newest four by a summary.
C38_Witness ==
    /\ result.op \in {"add_message", "auto_compact"}
    /\ result.auto = 3
    /\ compaction_history # <<>>
    /\ LastEvent.level = 3
    /\ \E m \in Range(messages) : m.is_summary

\* A file recompression: Level 1, or the one that opens Level 3.
IsRecompressionStep == IsForceStep /\ result'.level \in {1, 3}

\* C39: file recompression never increases a file reference's token count: for
\* every reference that Level 1 or Level 3 rewrites, the new tokens value is
\* less than or equal to the old one, including references of fewer than 50
\* tokens, so the tokens_saved reported in the event details is never negative.
C39_RecompressionNeverGrows ==
    [][IsRecompressionStep =>
          /\ \A r \in file_references : \A q \in file_references' :
                q.id = r.id => q.tokens <= r.tokens
          /\ (Len(compaction_history') > Len(compaction_history)
                 /\ LastEvent'.level = 1) =>
                LastEvent'.details.tokens_saved >= 0]_vars

\* A reference of at least 50 tokens is never made larger.
RecompressionGrowsOnlySmall ==
    [][IsRecompressionStep =>
          \A r \in file_references : \A q \in file_references' :
             (q.id = r.id /\ r.tokens >= FLOOR_TOKENS) => q.tokens <= r.tokens]_vars

\* The rows a session owns in each table.
SessionRows(db, session_id) ==
    SelectSeq(db.messages, LAMBDA m : m.session_id = session_id)

SessionRefs(db, session_id) ==
    {r \in db.file_references :
        \E m \in Range(db.messages) :
            m.id = r.message_id /\ m.session_id = session_id}

SessionEvents(db, session_id) ==
    SelectSeq(db.compaction_history, LAMBDA ev : ev.session_id = session_id)

\* The state of a session without the row ids the store allocates for all
\* sessions together: a message is named by its position among the session's
\* messages, a file reference by its rank among the session's references.
SessionView(db, session_id) ==
    LET msgs == SessionRows(db, session_id)
        refs == SessionRefs(db, session_id)
    IN [messages |-> [i \in 1..Len(msgs) |->
                         [role |-> msgs[i].role, content |-> msgs[i].content,
                          tokens |-> msgs[i].tokens,
                          is_summary |-> msgs[i].is_summary]],
        file_references |->
            {[message |-> CHOOSE i \in 1..Len(msgs) : msgs[i].id = r.message_id,
              rank |-> Cardinality({q \in refs : q.id <= r.id}),
              file_path |-> r.file_path, mode |-> r.mode, tokens |-> r.tokens] :
                r \in refs},
        compaction_history |-> SessionEvents(db, session_id)]

\* The store in which the session is alone: its rows only, numbered as a store
\* that never held another session numbers them.
AloneDb(session_id) ==
    LET v == SessionView(Db, session_id)
    IN [messages |-> [i \in 1..Len(v.messages) |->
                         [id |-> i, session_id |-> session_id,
                          role |-> v.messages[i].role,
                          content |-> v.messages[i].content,
                          tokens |-> v.messages[i].tokens,
                          timestamp |-> i,
                          is_summary |-> v.messages[i].is_summary]],
        file_references |->
            {[id |-> r.rank, message_id |-> r.message, file_path |-> r.file_path,
              mode |-> r.mode, tokens |-> r.tokens] : r \in v.file_references},
        compaction_history |-> v.compaction_history,
        next_message_id |-> Len(v.messages) + 1,
        next_file_ref_id |-> Cardinality(v.file_references) + 1,
        embeddings |-> {},
        next_embedding_id |-> 1]

AloneEngine(session_id) ==
    [db |-> AloneDb(session_id),
     messages_since_compaction |-> messages_since_compaction[session_id],
     last_compaction_time |-> last_compaction_time[session_id]]

\* The engines the step's call leaves when the session is alone in the store.
AloneOutcomes(session_id) ==
    IF result'.op = "add_message"
    THEN {AddMessage(AloneEngine(session_id), session_id, config.max_tokens,
                     input[1], input[2], input[3], input[4]).e :
             input \in IsolationInputs}
    ELSE {ForceCompact(AloneEngine(session_id), session_id, result'.level).e}

OtherSession(session_id) == IF session_id = "A" THEN "B" ELSE "A"

\* C40: sessions are isolated: when engines for two different sessions sharing
\* one store interleave their appends and compactions in any order, no
\* operation of the engine for session A changes, deletes or inserts a message,
\* file reference or compaction event of session B, and the final state of each
\* session equals the one it reaches when its engine runs alone (every call
\* leaves its session as the same call does in a store that holds that session
\* only).
C40_SessionsIsolated ==
    [][\A session_id \in {"A", "B"} :
          result'.session = session_id =>
             /\ SessionRows(Db', OtherSession(session_id)) =
                   SessionRows(Db, OtherSession(session_id))
             /\ SessionRefs(Db', OtherSession(session_id)) =
                   SessionRefs(Db, OtherSession(session_id))
             /\ SessionEvents(Db', OtherSession(session_id)) =
                   SessionEvents(Db, OtherSession(session_id))
             /\ messages_since_compaction'[OtherSession(session_id)] =
                   messages_since_compaction[OtherSession(session_id)]
             /\ last_compaction_time'[OtherSession(session_id)] =
                   last_compaction_time[OtherSession(session_id)]
             /\ \E e \in AloneOutcomes(session_id) :
                   /\ SessionView(Db', session_id) = SessionView(e.db, session_id)
                   /\ messages_since_compaction'[session_id] =
                         e.messages_since_compaction
                   /\ last_compaction_time'[session_id] = e.last_compaction_time]_vars

\* Both sessions hold messages saved in turn, session B a file reference of its
\* own, and session A was compacted to a summary by Level 3.
C40_Witness ==
    /\ result.op = "force_compact"
    /\ result.session = "A"
    /\ result.level = 3
    /\ \E m \in Range(messages) : m.session_id = "A" /\ m.is_summary
    /\ \E m \in Range(messages) : \E k \in Range(messages) :
          m.session_id = "B" /\ k.session_id = "A" /\ ~k.is_summary /\ m.id < k.id
    /\ SessionRefs(Db, "B") # {}
    /\ SessionEvents(Db, "A") # <<>>

====
